---- MODULE Spec2Model ----
(***************************************************************************)
(* Verification model of rdatools (DigitalGlobe/rdatools).                 *)
(*                                                                         *)
(* Part 1: the concurrent tile realizer, Template.Realize /                *)
(* Template.realize / Template.processJob / rdaErrors of                   *)
(* rda/pkg/rda/client.go.  One Realize call is modelled: the producer      *)
(* goroutine, the numParallel worker goroutines, the goroutine that closes *)
(* jobsOut, and the collecting loop of the caller, communicating over the  *)
(* two unbuffered channels jobsIn and jobsOut, together with the tile      *)
(* directory on disk, the RDA server's answers and the caller's context.   *)
(***************************************************************************)
EXTENDS Integers, Naturals, Sequences, FiniteSets, Bags, TLC

(***************************************************************************)
(* Bounds of the model.                                                    *)
(***************************************************************************)
\* Largest number of tiles (NumXTiles * NumYTiles) of a requested window.
MaxTiles == 2
\* Largest value handed to the NumParallel option.
MaxNumParallel == 2
\* Largest number of tile files already in the tile directory before the call.
MaxPrior == 2
\* Largest number of environment faults during one call (failed request,
\* non-200 answer, empty body, failed create/copy/close/remove).
MaxFaults == 2

(***************************************************************************)
(* Values.                                                                 *)
(***************************************************************************)
\* Error messages.  The code looks at a message in two places only: addError
\* compares it with the message of context.Canceled, and ResponseToError tests
\* a decoded message for emptiness.  OtherMessage stands for every text that
\* is neither.
ContextCanceled == "context canceled"
OtherMessage == "some other message"

\* job.err == nil
NoErr == [origin |-> "none", cause |-> "", url |-> << >>]

\* An error value.  cause is errors.Cause(err).Error(): the message of the
\* innermost error of the Wrap/WithMessage chain.  origin records what really
\* happened ("ctx": the request was cut short by the cancelled context,
\* "fault": anything else: transport, non-200 answer, file system); the code
\* never reads it, only the properties do.  url is the job.url the message
\* names.
Err(origin, cause, url) == [origin |-> origin, cause |-> cause, url |-> url]

\* A file on disk: absent, or present with empty / non-empty contents, written
\* either before the call ("prior") or by this call ("realize").
NoFile == [exists |-> FALSE, nonEmpty |-> FALSE, writer |-> "none"]
File(nonEmpty, writer) == [exists |-> TRUE, nonEmpty |-> nonEmpty, writer |-> writer]

\* Bodies a non-200 answer may carry: not JSON, JSON without a message, JSON
\* with a message (any text the server chooses).
ErrorBodies ==
    { [valid |-> FALSE, Msg |-> ""],
      [valid |-> TRUE,  Msg |-> ""],
      [valid |-> TRUE,  Msg |-> OtherMessage],
      [valid |-> TRUE,  Msg |-> ContextCanceled] }

\* The machines modelled: runtime.NumCPU().  With one CPU the default pool of
\* 4 * NumCPU workers already holds a worker for every tile of the windows
\* modelled, so that more CPUs add idle workers only.
CPUCounts == {1}

VARIABLES
    window,          \* t.window: MinTileX, MaxTileX, MinTileY, MaxTileY
    numCPU,          \* runtime.NumCPU()
    optNumParallel,  \* the value given to the NumParallel option
    numParallel,     \* t.numParallel
    ctxDone,         \* ctx.Done() is closed
    disk,            \* the tile directory: file path -> file
    disk0,           \* the tile directory when Realize was called
    prod,            \* the producer goroutine: pc and loop variables x, y
    workers,         \* bag of the live worker goroutines' states
    wg,              \* sync.WaitGroup counter
    jobsInClosed,    \* close(jobsIn) has run
    jobsOutClosed,   \* close(jobsOut) has run
    mainPc,          \* the collecting loop: "range" or "returned"
    completedTiles,  \* completedTiles of realize (a bag of TileInfo)
    jobserr,         \* jobserr of realize: Nil or its errors list
    ret,             \* what realize returned
    dispatched,      \* jobs sent on jobsIn so far, in order
    httpRequests,    \* file path -> number of requests issued for that tile
    progressCalls,   \* number of calls of t.progressFunc
    failed,          \* jobs that processJob ended with an error
    created,         \* file paths on which os.Create succeeded during the call
    removeFailed,    \* file paths on which os.Remove returned an error
    faults           \* environment faults injected so far

vars == << window, numCPU, optNumParallel, numParallel, ctxDone, disk, disk0, prod,
           workers, wg, jobsInClosed, jobsOutClosed, mainPc, completedTiles,
           jobserr, ret, dispatched, httpRequests, progressCalls, failed, created,
           removeFailed, faults >>

(***************************************************************************)
(* The other calls of the program, each modelled on its own: while one     *)
(* call runs, the state of the others stays as it is.                      *)
(***************************************************************************)
VARIABLES
    fbs,             \* one call of FetchBatchStatus (rda/pkg/rda/batch.go)
    del,             \* one call of S3Accessor.RDADeleteBatchJobArtifacts
    dl,              \* S3Accessor.DownloadBatchJobArtifacts and the function it
                     \* returns, with the bucket, the output directory and ctx
    watch,           \* the watch command (rda/cmd/job.go)
    graph,           \* one call of NewGraphFromAPI, and its round trip
    geo,             \* one call of ImageGeoreferencing.Invert, and its use
    subset,          \* one call of Metadata.Subset
    vrt              \* one call of NewVRT

\* No call is in progress.
NoCall == [call |-> "none"]

\* The state outside the Realize call.
otherCalls == << fbs, del, dl, watch, graph, geo, subset, vrt >>

OtherCallsIdle ==
    /\ fbs = NoCall /\ del = NoCall /\ dl = NoCall /\ watch = NoCall /\ graph = NoCall
    /\ geo = NoCall /\ subset = NoCall /\ vrt = NoCall

(***************************************************************************)
(* Template construction.                                                  *)
(***************************************************************************)
\* NumParallel: the option sets t.numParallel only for a positive value.
NumParallel(val, current) == IF val > 0 THEN val ELSE current

\* NewTemplate: numParallel defaults to 4 * runtime.NumCPU(), then the options
\* are applied.
NewTemplate(cpus, val) == NumParallel(val, 4 * cpus)

(***************************************************************************)
(* Tiles and files.                                                        *)
(***************************************************************************)
\* filepath.Join(tileDir, fmt.Sprintf("tile_%d_%d.tif", x, y))
\* fmt.Sprintf("%d", n): the decimal digits of n, with a minus sign for a
\* negative number.
DigitChars == << "0", "1", "2", "3", "4", "5", "6", "7", "8", "9" >>

RECURSIVE Digits(_)
Digits(n) ==
    IF n < 10 THEN << DigitChars[n + 1] >>
    ELSE Append(Digits(n \div 10), DigitChars[(n % 10) + 1])

Itoa(n) == IF n < 0 THEN << "-" >> \o Digits(-n) ELSE Digits(n)

\* Mutant of FilePath: the two numbers are written without a separator.
FilePath_NoSeparator(x, y) == << "tile_" >> \o Itoa(x) \o Itoa(y) \o << ".tif" >>

FilePath(x, y) == << "tile_" >> \o Itoa(x) \o << "_" >> \o Itoa(y) \o << ".tif" >>

\* The (x, y) the producer's nested loops range over.
WindowTiles(w) == (w.MinTileX .. w.MaxTileX) \X (w.MinTileY .. w.MaxTileY)

WindowPaths(w) == { FilePath(t[1], t[2]) : t \in WindowTiles(w) }

\* urls.tileURL: ".../template/<id>/tile/<x>/<y>?<query>"
TileURL(x, y) == << "tile", x, y >>

\* realizeJob
Job(x, y, err) ==
    [url |-> TileURL(x, y), filePath |-> FilePath(x, y), xTile |-> x, yTile |-> y, err |-> err]

NoJob == [url |-> << >>, filePath |-> << >>, xTile |-> 0, yTile |-> 0, err |-> NoErr]

\* TileInfo{FilePath: job.filePath, XTile: job.xTile, YTile: job.yTile}
TileInfo(job) == [FilePath |-> job.filePath, XTile |-> job.xTile, YTile |-> job.yTile]

\* urls.tileURL: url.Parse of a URL that formURL has just serialized cannot
\* fail, so rj.err is nil for every job.
tileURLErr(x, y) == NoErr

\* Mutant of StatExists: the test inverted, os.IsNotExist(err).
StatExists_Inverted(d, path) == ~d[path].exists

\* os.Stat(job.filePath); !os.IsNotExist(err)
StatExists(d, path) == d[path].exists

\* Mutant of osRemove: the partial file is left behind though os.Remove
\* reports no error (the removal forgotten).
osRemove_Forgotten(d, path, ok) == d

\* os.Remove(path): removes the file when it succeeds.
osRemove(d, path, ok) == IF ok THEN [d EXCEPT ![path] = NoFile] ELSE d

(***************************************************************************)
(* Errors.                                                                 *)
(***************************************************************************)
\* A nil *rdaErrors.  The errors slice of a non-nil one, like completedTiles,
\* is kept as a bag: the order of either list is the order in which results
\* happened to arrive, and nothing reads it.
Nil == [nil |-> TRUE, errors |-> EmptyBag]

\* ResponseToError: the body's message when it decodes to a non-empty one
\* (errors.Wrap(rdaerr, msg), whose cause is rdaerr), otherwise errors.New(msg).
ResponseToError(body, url) ==
    IF ~body.valid \/ body.Msg = ""
      THEN Err("fault", OtherMessage, url)
      ELSE Err("fault", body.Msg, url)

\* Mutant of addError: the test for the cancellation message left out.
addError_NoCancelCheck(r, err) ==
    IF r = Nil
      THEN [nil |-> FALSE, errors |-> SetToBag({err})]
      ELSE [r EXCEPT !.errors = @ (+) SetToBag({err})]

\* rdaErrors.addError
addError(r, err) ==
    IF err.cause = ContextCanceled
      THEN r
      ELSE IF r = Nil
             THEN [nil |-> FALSE, errors |-> SetToBag({err})]
             ELSE [r EXCEPT !.errors = @ (+) SetToBag({err})]

(***************************************************************************)
(* Initial state: Realize has created the tile directory and realize has   *)
(* started its goroutines.                                                 *)
(***************************************************************************)
Windows ==
    { w \in [MinTileX : {-1}, MaxTileX : -1 .. (MaxTiles - 2),
             MinTileY : {2},  MaxTileY : 2 .. (MaxTiles + 1)] :
        /\ (w.MaxTileX - w.MinTileX + 1) * (w.MaxTileY - w.MinTileY + 1) <= MaxTiles
        /\ w.MaxTileX - w.MinTileX + 1 <= 2 }

PriorDisks(w) ==
    { d \in [WindowPaths(w) -> {NoFile, File(FALSE, "prior"), File(TRUE, "prior")}] :
        Cardinality({ p \in WindowPaths(w) : d[p].exists }) <= MaxPrior }

\* A worker blocked in "for job := range jobsIn".
Idle == [pc |-> "recv", job |-> NoJob]

\* Mutant of SpawnWorkers: the loop runs once too often (i <= t.numParallel).
SpawnWorkers_OneMore(n) == [ r \in {Idle} |-> n + 1 ]

\* for i := 0; i < t.numParallel; i++ { wg.Add(1); go worker }
SpawnWorkers(n) == [ r \in { i \in {Idle} : n > 0 } |-> n ]

Init ==
    \E w \in Windows, cpus \in CPUCounts, val \in 0 .. MaxNumParallel :
      \E d \in PriorDisks(w) :
        /\ window = w
        /\ numCPU = cpus
        /\ optNumParallel = val
        /\ numParallel = NewTemplate(cpus, val)
        /\ ctxDone = FALSE
        /\ disk = d
        /\ disk0 = d
        /\ prod = [pc |-> "select", x |-> w.MinTileX, y |-> w.MinTileY]
        /\ workers = SpawnWorkers(NewTemplate(cpus, val))
        /\ wg = BagCardinality(SpawnWorkers(NewTemplate(cpus, val))) + 1
        /\ jobsInClosed = FALSE
        /\ jobsOutClosed = FALSE
        /\ mainPc = "range"
        /\ completedTiles = EmptyBag
        /\ jobserr = Nil
        /\ ret = [returned |-> FALSE, tiles |-> EmptyBag, err |-> Nil]
        /\ dispatched = << >>
        /\ httpRequests = [p \in WindowPaths(w) |-> 0]
        /\ progressCalls = 0
        /\ failed = {}
        /\ created = {}
        /\ removeFailed = {}
        /\ faults = 0
        /\ OtherCallsIdle

(***************************************************************************)
(* Helpers on the worker pool.                                             *)
(***************************************************************************)
\* The worker in state old continues in state new.
Continue(old, new) == (workers (-) SetToBag({old})) (+) SetToBag({new})

WorkersAt(pc) == { r \in BagToSet(workers) : r.pc = pc }

\* processJob returns: the deferred t.progressFunc() runs, then the worker
\* blocks in the deferred "jobsOut <- job".
Return(old, job) ==
    /\ workers' = Continue(old, [pc |-> "send", job |-> job])
    /\ progressCalls' = progressCalls + 1
    /\ failed' = IF job.err # NoErr THEN failed \cup {job} ELSE failed

\* The producer's loop variables after the job for (x, y) has been sent:
\* y is the inner loop, x the outer one.
Advance(w, x, y) ==
    IF y < w.MaxTileY THEN [pc |-> "select", x |-> x, y |-> y + 1]
    ELSE IF x < w.MaxTileX THEN [pc |-> "select", x |-> x + 1, y |-> w.MinTileY]
    ELSE [pc |-> "wgDone", x |-> x + 1, y |-> w.MinTileY]

(***************************************************************************)
(* The producer goroutine.                                                 *)
(***************************************************************************)
\* select: case jobsIn <- rj.  The send on the unbuffered channel proceeds
\* when a worker is blocked receiving; select chooses this case whenever it
\* is ready, whether or not ctx.Done() is ready too.  The receiving worker
\* runs processJob up to its first blocking call: an errored job and a tile
\* already on disk return at once, otherwise the request is issued.
ProducerSend ==
    /\ prod.pc = "select"
    /\ BagIn(Idle, workers)
    /\ LET job == Job(prod.x, prod.y, tileURLErr(prod.x, prod.y)) IN
         /\ dispatched' = Append(dispatched, << prod.x, prod.y >>)
         /\ prod' = Advance(window, prod.x, prod.y)
         /\ IF job.err # NoErr \/ StatExists(disk, job.filePath)
              THEN /\ Return(Idle, job)
                   /\ UNCHANGED httpRequests
              ELSE /\ workers' = Continue(Idle, [pc |-> "do", job |-> job])
                   /\ httpRequests' = [httpRequests EXCEPT ![job.filePath] = @ + 1]
                   /\ UNCHANGED << progressCalls, failed >>
    /\ UNCHANGED << otherCalls, window, numCPU, optNumParallel, numParallel, ctxDone, disk, disk0,
                    wg, jobsInClosed, jobsOutClosed, mainPc, completedTiles, jobserr,
                    ret, created, removeFailed, faults >>

\* select: case <-ctx.Done(): return
ProducerCancelled ==
    /\ prod.pc = "select"
    /\ ctxDone
    /\ prod' = [prod EXCEPT !.pc = "wgDone"]
    /\ UNCHANGED << otherCalls, window, numCPU, optNumParallel, numParallel, ctxDone, disk, disk0,
                    workers, wg, jobsInClosed, jobsOutClosed, mainPc, completedTiles,
                    jobserr, ret, dispatched, httpRequests, progressCalls, failed,
                    created, removeFailed, faults >>

\* defer wg.Done() (deferred last, so it runs first)
ProducerWgDone ==
    /\ prod.pc = "wgDone"
    /\ wg' = wg - 1
    /\ prod' = [prod EXCEPT !.pc = "close"]
    /\ UNCHANGED << otherCalls, window, numCPU, optNumParallel, numParallel, ctxDone, disk, disk0,
                    workers, jobsInClosed, jobsOutClosed, mainPc, completedTiles,
                    jobserr, ret, dispatched, httpRequests, progressCalls, failed,
                    created, removeFailed, faults >>

\* Mutant of ProducerCloseJobsIn: the producer exits without closing jobsIn.
ProducerCloseJobsIn_NoClose ==
    /\ prod.pc = "close"
    /\ prod' = [prod EXCEPT !.pc = "exit"]
    /\ UNCHANGED << otherCalls, window, numCPU, optNumParallel, numParallel, ctxDone, disk, disk0,
                    workers, wg, jobsInClosed, jobsOutClosed, mainPc, completedTiles,
                    jobserr, ret, dispatched, httpRequests, progressCalls, failed,
                    created, removeFailed, faults >>

\* defer close(jobsIn)
ProducerCloseJobsIn ==
    /\ prod.pc = "close"
    /\ jobsInClosed' = TRUE
    /\ prod' = [prod EXCEPT !.pc = "exit"]
    /\ UNCHANGED << otherCalls, window, numCPU, optNumParallel, numParallel, ctxDone, disk, disk0,
                    workers, wg, jobsOutClosed, mainPc, completedTiles, jobserr, ret,
                    dispatched, httpRequests, progressCalls, failed, created, removeFailed,
                    faults >>

(***************************************************************************)
(* The worker goroutines: processJob from the return of client.Do on.  A   *)
(* worker at "do" has its request outstanding, up to the end of the body.  *)
(***************************************************************************)
\* t.client.Do(req) returns an error because ctx was cancelled: the
\* retrying client gives back ctx.Err().
DoCancelled ==
    /\ ctxDone
    /\ \E r \in WorkersAt("do") :
         Return(r, [r.job EXCEPT !.err = Err("ctx", ContextCanceled, r.job.url)])
    /\ UNCHANGED << otherCalls, window, numCPU, optNumParallel, numParallel, ctxDone, disk, disk0,
                    prod, wg, jobsInClosed, jobsOutClosed, mainPc, completedTiles,
                    jobserr, ret, dispatched, httpRequests, created, removeFailed, faults >>

\* t.client.Do(req) returns a transport error once the retries are used up.
DoFailed ==
    /\ faults < MaxFaults
    /\ \E r \in WorkersAt("do") :
         Return(r, [r.job EXCEPT !.err = Err("fault", OtherMessage, r.job.url)])
    /\ faults' = faults + 1
    /\ UNCHANGED << otherCalls, window, numCPU, optNumParallel, numParallel, ctxDone, disk, disk0,
                    prod, wg, jobsInClosed, jobsOutClosed, mainPc, completedTiles,
                    jobserr, ret, dispatched, httpRequests, created, removeFailed >>

\* res.StatusCode != http.StatusOK: job.err = ResponseToError(res.Body, ...)
DoNon200 ==
    /\ faults < MaxFaults
    /\ \E r \in WorkersAt("do"), body \in ErrorBodies :
         Return(r, [r.job EXCEPT !.err = ResponseToError(body, r.job.url)])
    /\ faults' = faults + 1
    /\ UNCHANGED << otherCalls, window, numCPU, optNumParallel, numParallel, ctxDone, disk, disk0,
                    prod, wg, jobsInClosed, jobsOutClosed, mainPc, completedTiles,
                    jobserr, ret, dispatched, httpRequests, created, removeFailed >>

\* Status 200, os.Create(job.filePath) fails.
CreateFailed ==
    /\ faults < MaxFaults
    /\ \E r \in WorkersAt("do") :
         Return(r, [r.job EXCEPT !.err = Err("fault", OtherMessage, r.job.url)])
    /\ faults' = faults + 1
    /\ UNCHANGED << otherCalls, window, numCPU, optNumParallel, numParallel, ctxDone, disk, disk0,
                    prod, wg, jobsInClosed, jobsOutClosed, mainPc, completedTiles,
                    jobserr, ret, dispatched, httpRequests, created, removeFailed >>

\* Status 200; os.Create, io.Copy and f.Close succeed: the file holds the body
\* the server sent, which a well-behaved server never leaves empty.
CopyOK ==
    /\ \E r \in WorkersAt("do"), nonEmpty \in BOOLEAN :
         /\ nonEmpty \/ faults < MaxFaults
         /\ faults' = IF nonEmpty THEN faults ELSE faults + 1
         /\ disk' = [disk EXCEPT ![r.job.filePath] = File(nonEmpty, "realize")]
         /\ created' = created \cup {r.job.filePath}
         /\ Return(r, r.job)
    /\ UNCHANGED << otherCalls, window, numCPU, optNumParallel, numParallel, ctxDone, disk0, prod,
                    wg, jobsInClosed, jobsOutClosed, mainPc, completedTiles, jobserr,
                    ret, dispatched, httpRequests, removeFailed >>

\* The number of faults of a failure after the file was created: the failure
\* itself unless it is the cancellation, and a failing os.Remove.
FaultsOf(cancelled, removeOK) ==
    (IF cancelled THEN 0 ELSE 1) + (IF removeOK THEN 0 ELSE 1)

\* Status 200, os.Create succeeds, io.Copy fails (the transfer breaks, or ctx
\* is cancelled mid-transfer) after writing some or none of the body:
\* f.Close(), os.Remove(job.filePath), and job.err is the copy error with the
\* close and remove errors added as messages, which leaves its cause unchanged.
\* What had been written shows only when the file stays.
CopyFailed ==
    /\ \E r \in WorkersAt("do"), cancelled, removeOK \in BOOLEAN :
       \E partial \in IF removeOK THEN {FALSE} ELSE BOOLEAN :
         /\ cancelled => ctxDone
         /\ created' = created \cup {r.job.filePath}
         /\ faults + FaultsOf(cancelled, removeOK) <= MaxFaults
         /\ faults' = faults + FaultsOf(cancelled, removeOK)
         /\ disk' = osRemove([disk EXCEPT ![r.job.filePath] = File(partial, "realize")],
                             r.job.filePath, removeOK)
         /\ removeFailed' = IF removeOK THEN removeFailed
                                        ELSE removeFailed \cup {r.job.filePath}
         /\ Return(r, [r.job EXCEPT !.err =
                         IF cancelled THEN Err("ctx", ContextCanceled, r.job.url)
                                      ELSE Err("fault", OtherMessage, r.job.url)])
    /\ UNCHANGED << otherCalls, window, numCPU, optNumParallel, numParallel, ctxDone, disk0, prod,
                    wg, jobsInClosed, jobsOutClosed, mainPc, completedTiles, jobserr,
                    ret, dispatched, httpRequests >>

\* Status 200, os.Create and io.Copy succeed but f.Close() fails:
\* os.Remove(job.filePath), and job.err is the close error.
CloseFailed ==
    /\ \E r \in WorkersAt("do"), removeOK \in BOOLEAN :
       \E nonEmpty \in IF removeOK THEN {TRUE} ELSE BOOLEAN :
         /\ created' = created \cup {r.job.filePath}
         /\ faults + FaultsOf(FALSE, removeOK) <= MaxFaults
         /\ faults' = faults + FaultsOf(FALSE, removeOK)
         /\ disk' = osRemove([disk EXCEPT ![r.job.filePath] = File(nonEmpty, "realize")],
                             r.job.filePath, removeOK)
         /\ removeFailed' = IF removeOK THEN removeFailed
                                        ELSE removeFailed \cup {r.job.filePath}
         /\ Return(r, [r.job EXCEPT !.err = Err("fault", OtherMessage, r.job.url)])
    /\ UNCHANGED << otherCalls, window, numCPU, optNumParallel, numParallel, ctxDone, disk0, prod,
                    wg, jobsInClosed, jobsOutClosed, mainPc, completedTiles, jobserr,
                    ret, dispatched, httpRequests >>

\* "jobsOut <- job" meets "for job := range jobsOut": the collecting loop
\* takes the result, and the worker goes back to receiving from jobsIn.
DeliverResult ==
    /\ mainPc = "range"
    /\ ~jobsOutClosed
    /\ \E r \in WorkersAt("send") :
         /\ workers' = Continue(r, Idle)
         /\ IF r.job.err # NoErr
              THEN /\ jobserr' = addError(jobserr, r.job.err)
                   /\ UNCHANGED completedTiles
              ELSE /\ completedTiles' = completedTiles (+) SetToBag({TileInfo(r.job)})
                   /\ UNCHANGED jobserr
    /\ UNCHANGED << otherCalls, window, numCPU, optNumParallel, numParallel, ctxDone, disk, disk0,
                    prod, wg, jobsInClosed, jobsOutClosed, mainPc, ret, dispatched,
                    httpRequests, progressCalls, failed, created, removeFailed, faults >>

\* Mutant of WorkerExit: a worker leaves its loop while jobsIn is still open.
WorkerExit_BeforeClose ==
    /\ BagIn(Idle, workers)
    /\ workers' = workers (-) SetToBag({Idle})
    /\ wg' = wg - 1
    /\ UNCHANGED << otherCalls, window, numCPU, optNumParallel, numParallel, ctxDone, disk, disk0,
                    prod, jobsInClosed, jobsOutClosed, mainPc, completedTiles, jobserr,
                    ret, dispatched, httpRequests, progressCalls, failed, created, removeFailed,
                    faults >>

\* "for job := range jobsIn" ends because jobsIn is closed: defer wg.Done().
WorkerExit ==
    /\ jobsInClosed
    /\ BagIn(Idle, workers)
    /\ workers' = workers (-) SetToBag({Idle})
    /\ wg' = wg - 1
    /\ UNCHANGED << otherCalls, window, numCPU, optNumParallel, numParallel, ctxDone, disk, disk0,
                    prod, jobsInClosed, jobsOutClosed, mainPc, completedTiles, jobserr,
                    ret, dispatched, httpRequests, progressCalls, failed, created, removeFailed,
                    faults >>

(***************************************************************************)
(* The closer goroutine, the collecting loop and the caller's context.     *)
(***************************************************************************)
\* Mutant of CloseJobsOut: jobsOut is closed without waiting for the workers.
CloseJobsOut_NoWait ==
    /\ ~jobsOutClosed
    /\ jobsOutClosed' = TRUE
    /\ UNCHANGED << otherCalls, window, numCPU, optNumParallel, numParallel, ctxDone, disk, disk0,
                    prod, workers, wg, jobsInClosed, mainPc, completedTiles, jobserr,
                    ret, dispatched, httpRequests, progressCalls, failed, created, removeFailed,
                    faults >>

\* go func() { defer close(jobsOut); wg.Wait() }()
CloseJobsOut ==
    /\ wg = 0
    /\ ~jobsOutClosed
    /\ jobsOutClosed' = TRUE
    /\ UNCHANGED << otherCalls, window, numCPU, optNumParallel, numParallel, ctxDone, disk, disk0,
                    prod, workers, wg, jobsInClosed, mainPc, completedTiles, jobserr,
                    ret, dispatched, httpRequests, progressCalls, failed, created, removeFailed,
                    faults >>

\* "for job := range jobsOut" ends; if jobserr != nil { return completedTiles,
\* jobserr }; return completedTiles, nil
RealizeReturn ==
    /\ mainPc = "range"
    /\ jobsOutClosed
    /\ mainPc' = "returned"
    /\ ret' = [returned |-> TRUE, tiles |-> completedTiles,
               err |-> IF jobserr # Nil THEN jobserr ELSE Nil]
    /\ UNCHANGED << otherCalls, window, numCPU, optNumParallel, numParallel, ctxDone, disk, disk0,
                    prod, workers, wg, jobsInClosed, jobsOutClosed, completedTiles,
                    jobserr, dispatched, httpRequests, progressCalls, failed,
                    created, removeFailed, faults >>

\* The caller cancels ctx while Realize is running.
Cancel ==
    /\ ~ctxDone
    /\ mainPc = "range"
    /\ ctxDone' = TRUE
    /\ UNCHANGED << otherCalls, window, numCPU, optNumParallel, numParallel, disk, disk0, prod,
                    workers, wg, jobsInClosed, jobsOutClosed, mainPc, completedTiles,
                    jobserr, ret, dispatched, httpRequests, progressCalls, failed,
                    created, removeFailed, faults >>

Next ==
    \/ ProducerSend
    \/ ProducerCancelled
    \/ ProducerWgDone
    \/ ProducerCloseJobsIn
    \/ DoCancelled
    \/ DoFailed
    \/ DoNon200
    \/ CreateFailed
    \/ CopyOK
    \/ CopyFailed
    \/ CloseFailed
    \/ DeliverResult
    \/ WorkerExit
    \/ CloseJobsOut
    \/ RealizeReturn
    \/ Cancel

Spec == Init /\ [][Next]_vars

\* The windows of up to two columns and two rows of tiles: with two of each
\* the order of the columns and the order of the rows can be told apart.
GridWindows ==
    [MinTileX : {-1}, MaxTileX : {-1, 0}, MinTileY : {2}, MaxTileY : {2, 3}]

\* The tile directory before the call: empty, or holding the file of the
\* window's first tile, whole or cut short.
GridDisks(w) ==
    { [p \in WindowPaths(w) |-> IF p = FilePath(w.MinTileX, w.MinTileY) THEN f ELSE NoFile] :
        f \in {NoFile, File(FALSE, "prior"), File(TRUE, "prior")} }

\* realize on a window of GridWindows with the NumParallel option set.
GridInit ==
    \E w \in GridWindows, cpus \in CPUCounts, val \in 1 .. MaxNumParallel :
      \E d \in GridDisks(w) :
        /\ window = w
        /\ numCPU = cpus
        /\ optNumParallel = val
        /\ numParallel = NewTemplate(cpus, val)
        /\ ctxDone = FALSE
        /\ disk = d
        /\ disk0 = d
        /\ prod = [pc |-> "select", x |-> w.MinTileX, y |-> w.MinTileY]
        /\ workers = SpawnWorkers(NewTemplate(cpus, val))
        /\ wg = BagCardinality(SpawnWorkers(NewTemplate(cpus, val))) + 1
        /\ jobsInClosed = FALSE
        /\ jobsOutClosed = FALSE
        /\ mainPc = "range"
        /\ completedTiles = EmptyBag
        /\ jobserr = Nil
        /\ ret = [returned |-> FALSE, tiles |-> EmptyBag, err |-> Nil]
        /\ dispatched = << >>
        /\ httpRequests = [p \in WindowPaths(w) |-> 0]
        /\ progressCalls = 0
        /\ failed = {}
        /\ created = {}
        /\ removeFailed = {}
        /\ faults = 0
        /\ OtherCallsIdle

GridSpec == GridInit /\ [][Next]_vars

\* The Go scheduler runs every goroutine that can run, and every HTTP request
\* and body transfer eventually returns; the caller need never cancel.
Returns ==
    DoCancelled \/ DoFailed \/ DoNon200 \/ CreateFailed \/ CopyOK
      \/ CopyFailed \/ CloseFailed

Producer == ProducerSend \/ ProducerCancelled \/ ProducerWgDone \/ ProducerCloseJobsIn

LiveSpec ==
    /\ Spec
    /\ WF_vars(Producer)
    /\ WF_vars(Returns)
    /\ WF_vars(DeliverResult)
    /\ WF_vars(WorkerExit)
    /\ WF_vars(CloseJobsOut)
    /\ WF_vars(RealizeReturn)

(***************************************************************************)
(* Properties of Realize.                                                  *)
(***************************************************************************)
Returned == ret.returned

Paths == WindowPaths(window)

\* The tiles handed to a worker so far.
Dispatched == { dispatched[i] : i \in 1 .. Len(dispatched) }

\* The TileInfo Realize reports for tile t.
InfoOf(t) == TileInfo(Job(t[1], t[2], NoErr))

ReturnedPaths == { ti.FilePath : ti \in BagToSet(ret.tiles) }

\* Failures that are not the cancellation of a request.
RealFailures == { j \in failed : j.err.origin # "ctx" }

\* The tiles whose job ended without an error.
Succeeded == { t \in Dispatched : \A j \in failed : << j.xTile, j.yTile >> # t }

\* The number of errors of the composite error e that name url.
ErrorsFor(e, url) ==
    BagCardinality([ x \in { y \in BagToSet(e.errors) : y.url = url } |-> e.errors[x] ])

\* Requests issued and not yet returned.
Outstanding == BagCardinality([ r \in WorkersAt("do") |-> workers[r] ])

\* C1: every call of Realize eventually returns, whatever the window, the
\* worker count, the outcomes of the tiles and the moment of cancellation,
\* provided every request eventually returns and the goroutines are scheduled.
C1_RealizeReturns == <>(mainPc = "returned")

\* A call that was cancelled before the window was exhausted, with two or
\* more workers, has returned.
C1_Witness ==
    /\ Returned
    /\ ctxDone
    /\ numParallel >= 2
    /\ Len(dispatched) < Cardinality(WindowTiles(window))
    /\ Len(dispatched) > 0

\* C2: a cancelled request is never put into the composite error, and when
\* the signal fired and cancelled requests are the only failures, Realize
\* returns a nil error.
C2_CancelledIsNoError ==
    /\ \A e \in BagToSet(jobserr.errors) : e.origin # "ctx"
    /\ (Returned /\ ctxDone /\ RealFailures = {}) => ret.err = Nil

\* Realize has returned after a cancellation that failed at least one request
\* and nothing else failed.
C2_Witness ==
    /\ Returned
    /\ ctxDone
    /\ failed # {}
    /\ RealFailures = {}

\* C3 (as claimed): if a tile failed with a non-cancellation error, Realize
\* returns a composite error counting exactly the tiles that failed with a
\* non-cancellation error, together with all the tiles that succeeded.
C3_CompositeCountsRealFailures ==
    (Returned /\ RealFailures # {}) =>
        /\ ret.err # Nil
        /\ BagCardinality(ret.err.errors) = Cardinality(RealFailures)
        /\ ret.tiles = SetToBag({ InfoOf(t) : t \in Succeeded })

\* C4 (as claimed): without cancellation every tile of the window yields
\* exactly one result, a TileInfo or an aggregated error, and every TileInfo
\* is of a tile of the window and is returned once.
C4_OneResultPerTile ==
    (Returned /\ ~ctxDone) =>
        /\ \A t \in WindowTiles(window) :
             CopiesIn(InfoOf(t), ret.tiles) + ErrorsFor(ret.err, TileURL(t[1], t[2])) = 1
        /\ \A ti \in BagToSet(ret.tiles) :
             /\ << ti.XTile, ti.YTile >> \in WindowTiles(window)
             /\ CopiesIn(ti, ret.tiles) = 1

\* C5 (as claimed): the file of every returned TileInfo exists with non-zero
\* length when Realize returns.
C5_ReturnedFilesNonEmpty ==
    Returned =>
        \A ti \in BagToSet(ret.tiles) :
            disk[ti.FilePath].exists /\ disk[ti.FilePath].nonEmpty

\* For a tile whose file was on disk: no request, the file untouched, and the
\* tile reported once its job has been processed.
SkippedWhenPresent ==
    \A t \in WindowTiles(window) :
        disk0[FilePath(t[1], t[2])].exists =>
            /\ httpRequests[FilePath(t[1], t[2])] = 0
            /\ disk[FilePath(t[1], t[2])] = disk0[FilePath(t[1], t[2])]
            /\ (Returned /\ t \in Dispatched) => CopiesIn(InfoOf(t), ret.tiles) = 1

AllOnDisk == \A p \in Paths : disk0[p].exists

NoRequests == \A p \in Paths : httpRequests[p] = 0

AllReturned == \A t \in WindowTiles(window) : CopiesIn(InfoOf(t), ret.tiles) = 1

\* C6 (as claimed): a tile already on disk is skipped, left untouched and
\* reported complete; hence if every tile is on disk no request is issued and
\* all tiles of the window are returned.
C6_Original ==
    /\ SkippedWhenPresent
    /\ AllOnDisk => NoRequests
    /\ (AllOnDisk /\ Returned) => AllReturned

\* C6 (amended): as claimed, except that all tiles of the window are returned
\* only when the cancellation signal did not fire during the call.
C6_PresentTilesSkipped ==
    /\ SkippedWhenPresent
    /\ AllOnDisk => NoRequests
    /\ (AllOnDisk /\ Returned /\ ~ctxDone) => AllReturned

\* Realize has returned all tiles of a window of two tiles that were both on
\* disk.
C6_Witness ==
    /\ Returned
    /\ AllOnDisk
    /\ Cardinality(Paths) >= 2
    /\ AllReturned

\* C7 (as claimed): when Realize returns, every file the call created belongs
\* to a returned TileInfo or has been removed.
C7_Original ==
    Returned =>
        \A p \in created : p \in ReturnedPaths \/ ~disk[p].exists

\* C7 (amended): when Realize returns, every file the call created belongs to
\* a returned TileInfo, or has been removed, or os.Remove failed on it.
C7_NoPartialFileLeft ==
    Returned =>
        \A p \in created : p \in ReturnedPaths \/ ~disk[p].exists \/ p \in removeFailed

\* Realize has returned after a job failed with its file created, and the
\* file is gone.
C7_Witness ==
    /\ Returned
    /\ \E j \in failed : j.filePath \in created /\ ~disk[j.filePath].exists

\* C8: never more than N requests are outstanding, N being the value given to
\* NumParallel when positive and 4 * NumCPU otherwise.
C8_AtMostNOutstanding ==
    Outstanding <= (IF optNumParallel > 0 THEN optNumParallel ELSE 4 * numCPU)

\* A pool of two workers with both requests outstanding.
C8_Witness ==
    /\ optNumParallel = 2
    /\ Outstanding = 2

\* C9 (as claimed): once the signal has fired the producer sends no further
\* job.
C9_NoSendAfterCancel == [][ctxDone => dispatched' = dispatched]_vars

\* C10 (as claimed): the progress callback runs once per completed tile and
\* for no other, so that at the return its calls number the TileInfos.
C10_ProgressPerCompletedTile ==
    Returned => progressCalls = BagCardinality(ret.tiles)

\* The tiles a worker is still downloading.
InProcess == { << r.job.xTile, r.job.yTile >> : r \in WorkersAt("do") }

\* The tiles a worker has completed: processJob has ended without an error,
\* the file written in full or found present.
CompletedByWorker ==
    { t \in Dispatched :
        /\ t \notin InProcess
        /\ \A j \in failed : << j.xTile, j.yTile >> # t }

\* The tiles whose result a worker holds in "jobsOut <- job".
PendingResults == { << r.job.xTile, r.job.yTile >> : r \in WorkersAt("send") }

\* C30: whenever the cancellation signal fires, no result of a worker is
\* dropped: a tile a worker completed is held by the worker for the
\* collecting loop or is in completedTiles, and it is in the list Realize
\* returns.
C30_NoResultDropped ==
    /\ \A t \in CompletedByWorker :
         \/ t \in PendingResults /\ CopiesIn(InfoOf(t), completedTiles) = 0 /\ ~Returned
         \/ t \notin PendingResults /\ CopiesIn(InfoOf(t), completedTiles) = 1
    /\ Returned => \A t \in CompletedByWorker : CopiesIn(InfoOf(t), ret.tiles) = 1

\* The signal fired before every tile was dispatched, and Realize returned
\* the tiles completed, one downloaded during the call among them.
C30_Witness ==
    /\ Returned
    /\ ctxDone
    /\ Len(dispatched) < Cardinality(WindowTiles(window))
    /\ CompletedByWorker # {}
    /\ \E t \in CompletedByWorker :
         /\ FilePath(t[1], t[2]) \in created
         /\ CopiesIn(InfoOf(t), ret.tiles) = 1

\* The goroutines that may still send: the producer before its deferred
\* calls, and the workers, which all send a result for the job they hold.
ProducerSending == prod.pc = "select"

\* C31: jobsOut is closed only after the producer and every worker have
\* exited, jobsIn is closed exactly once and by the producer, and nothing is
\* sent on a closed jobsIn or jobsOut, in every interleaving and whenever the
\* signal fires.
C31_ChannelsClosedInOrder ==
    /\ [](/\ jobsOutClosed => (prod.pc = "exit" /\ workers = EmptyBag /\ wg = 0)
          /\ jobsInClosed <=> prod.pc = "exit"
          /\ ProducerSending => ~jobsInClosed
          /\ (WorkersAt("do") # {} \/ WorkersAt("send") # {}) => ~jobsOutClosed
          /\ Returned => (jobsInClosed /\ jobsOutClosed))
    /\ [][/\ jobsInClosed' # jobsInClosed => (~jobsInClosed /\ prod.pc = "close")
          /\ jobsOutClosed' # jobsOutClosed => (~jobsOutClosed /\ jobsInClosed)
          /\ dispatched' # dispatched => (~jobsInClosed /\ ~jobsInClosed')
          /\ completedTiles' # completedTiles => (~jobsOutClosed /\ ~jobsOutClosed')]_vars

\* The signal cut the producer short with a download in progress, and jobsOut
\* has been closed after the last worker left.
C31_Witness ==
    /\ jobsOutClosed
    /\ ~Returned
    /\ ctxDone
    /\ numParallel >= 2
    /\ Len(dispatched) = 1
    /\ Cardinality(WindowTiles(window)) = 2
    /\ failed # {}

\* Tile coordinates of one to three digits, of either sign, among them pairs
\* whose digits run together the same way.
PathCoords == {-111, -11, -1, 0, 1, 11, 12, 111, 112}

\* Distinct (x, y) have distinct file paths.
PathsDistinct ==
    \A t, u \in PathCoords \X PathCoords :
        t # u => FilePath(t[1], t[2]) # FilePath(u[1], u[2])

\* The workers that hold a job: downloading it or sending its result.
Holding == { r \in BagToSet(workers) : r.pc # "recv" }

\* C32: no two workers create, write or remove the same tile file: each
\* (x, y) of the window is handed to at most one worker, and distinct (x, y)
\* have distinct file paths.
C32_OneWorkerPerFile ==
    /\ PathsDistinct
    /\ \A i, j \in 1 .. Len(dispatched) : dispatched[i] = dispatched[j] => i = j
    /\ \A i \in 1 .. Len(dispatched) : dispatched[i] \in WindowTiles(window)
    /\ \A r \in Holding :
         /\ workers[r] = 1
         /\ << r.job.xTile, r.job.yTile >> \in Dispatched
         /\ r.job.filePath = FilePath(r.job.xTile, r.job.yTile)
         /\ \A q \in Holding : q.job.filePath = r.job.filePath => q = r
    /\ \A p \in created : \E t \in Dispatched : p = FilePath(t[1], t[2])

\* Two workers download two tiles at the same time, each to its own file.
C32_Witness ==
    /\ Cardinality(WorkersAt("do")) = 2
    /\ \E r, q \in WorkersAt("do") : r.job.filePath # q.job.filePath
    /\ Len(dispatched) = 2

\* C39: the producer dispatches the tile jobs in row-major order: the tiles
\* of row y, x from MinTileX to MaxTileX, are all sent before any tile of
\* row y + 1.
C39_RowMajorDispatch ==
    \A i, j \in 1 .. Len(dispatched) :
        i < j => \/ dispatched[i][2] < dispatched[j][2]
                 \/ (dispatched[i][2] = dispatched[j][2] /\ dispatched[i][1] < dispatched[j][1])

(***************************************************************************)
(* Part 2: FetchBatchStatus of rda/pkg/rda/batch.go.  One call is          *)
(* modelled: the goroutine sending the job ids, the worker goroutines, the *)
(* goroutine that closes jobsOut and the collecting loop of the caller.    *)
(***************************************************************************)
\* Largest number of job ids handed to FetchBatchStatus.  With one CPU the
\* pool holds 4 workers, so that 5 ids are more ids than workers.
MaxJobIDs == 5

\* The Realize call at rest, while another call is modelled.
RealizeIdle ==
    /\ window = [MinTileX |-> 0, MaxTileX |-> -1, MinTileY |-> 0, MaxTileY |-> -1]
    /\ numCPU = 1
    /\ optNumParallel = 0
    /\ numParallel = 0
    /\ ctxDone = FALSE
    /\ disk = << >>
    /\ disk0 = << >>
    /\ prod = [pc |-> "exit", x |-> 0, y |-> 0]
    /\ workers = EmptyBag
    /\ wg = 0
    /\ jobsInClosed = TRUE
    /\ jobsOutClosed = TRUE
    /\ mainPc = "none"
    /\ completedTiles = EmptyBag
    /\ jobserr = Nil
    /\ ret = [returned |-> FALSE, tiles |-> EmptyBag, err |-> Nil]
    /\ dispatched = << >>
    /\ httpRequests = << >>
    /\ progressCalls = 0
    /\ failed = {}
    /\ created = {}
    /\ removeFailed = {}
    /\ faults = 0

\* The state outside the FetchBatchStatus call.
notFbs == << vars, del, dl, watch, graph, geo, subset, vrt >>

\* The job id lists modelled: n distinct ids, and lists naming one id twice.
JobIDLists ==
    { [i \in 1 .. n |-> i] : n \in 0 .. MaxJobIDs }
      \cup { << 1, 1 >>, << 1, 2, 1 >> }

\* numParallel := 4 * runtime.NumCPU(); if len(jobIDs) < numParallel
\* { numParallel = len(jobIDs) }
FbsNumParallel(cpus, jobIDs) ==
    IF Len(jobIDs) < 4 * cpus THEN Len(jobIDs) ELSE 4 * cpus

\* &BatchResponse{JobID: ...}: the server answers a status request with the
\* record of the job asked for.
BatchResponse(jobID) == [JobID |-> jobID]

\* A worker blocked in "for jobID := range jobIDsIn".
FbsIdle == [pc |-> "recv", jobID |-> 0, resp |-> BatchResponse(0), err |-> NoErr]

FbsInit ==
    /\ RealizeIdle
    /\ graph = NoCall
    /\ geo = NoCall
    /\ subset = NoCall
    /\ vrt = NoCall
    /\ del = NoCall
    /\ dl = NoCall
    /\ watch = NoCall
    /\ \E jobIDs \in JobIDLists, cpus \in CPUCounts :
         fbs = [call |-> "FetchBatchStatus",
                jobIDs |-> jobIDs,
                numParallel |-> FbsNumParallel(cpus, jobIDs),
                ctxDone |-> FALSE,
                next |-> 1,
                prodPc |-> "select",
                workers |-> [ r \in { i \in {FbsIdle} : FbsNumParallel(cpus, jobIDs) > 0 }
                                |-> FbsNumParallel(cpus, jobIDs) ],
                wg |-> FbsNumParallel(cpus, jobIDs),
                inClosed |-> FALSE,
                outClosed |-> FALSE,
                mainPc |-> "range",
                jobs |-> EmptyBag,
                jobserr |-> Nil,
                ret |-> [returned |-> FALSE, jobs |-> EmptyBag, err |-> Nil, jobsNil |-> FALSE],
                failed |-> EmptyBag,
                faults |-> 0]

FbsContinue(old, new) == (fbs.workers (-) SetToBag({old})) (+) SetToBag({new})

FbsWorkersAt(pc) == { r \in BagToSet(fbs.workers) : r.pc = pc }

\* select: case jobIDsIn <- job.  The send proceeds when a worker is blocked
\* receiving, whether or not ctx.Done() is ready too; the worker then issues
\* the status request of batchStatusJob.
FbsSend ==
    /\ fbs # NoCall
    /\ fbs.prodPc = "select"
    /\ fbs.next <= Len(fbs.jobIDs)
    /\ BagIn(FbsIdle, fbs.workers)
    /\ fbs' = [fbs EXCEPT
                 !.next = @ + 1,
                 !.workers = FbsContinue(FbsIdle, [FbsIdle EXCEPT !.pc = "do",
                                                     !.jobID = fbs.jobIDs[fbs.next]])]
    /\ UNCHANGED notFbs

\* for _, job := range jobIDs: the list is exhausted.
FbsExhausted ==
    /\ fbs # NoCall
    /\ fbs.prodPc = "select"
    /\ fbs.next > Len(fbs.jobIDs)
    /\ fbs' = [fbs EXCEPT !.prodPc = "close"]
    /\ UNCHANGED notFbs

\* select: case <-ctx.Done(): return
FbsCancelled ==
    /\ fbs # NoCall
    /\ fbs.prodPc = "select"
    /\ fbs.next <= Len(fbs.jobIDs)
    /\ fbs.ctxDone
    /\ fbs' = [fbs EXCEPT !.prodPc = "close"]
    /\ UNCHANGED notFbs

\* defer close(jobIDsIn)
FbsCloseJobIDsIn ==
    /\ fbs # NoCall
    /\ fbs.prodPc = "close"
    /\ fbs' = [fbs EXCEPT !.prodPc = "exit", !.inClosed = TRUE]
    /\ UNCHANGED notFbs

\* batchStatusJob returns (resp, err); the worker blocks in
\* "jobsOut <- &batchStatusResponse{resp: resp, err: err}".
FbsJobDone(w, resp, err, fault) ==
    fbs' = [fbs EXCEPT
              !.workers = FbsContinue(w, [w EXCEPT !.pc = "send", !.resp = resp, !.err = err]),
              !.failed = IF err # NoErr THEN @ (+) SetToBag({err}) ELSE @,
              !.faults = @ + fault]

\* batchStatusJob: status 200 and a body that decodes.
FbsStatusOK ==
    /\ fbs # NoCall
    /\ \E w \in FbsWorkersAt("do") :
         FbsJobDone(w, BatchResponse(w.jobID), NoErr, 0)
    /\ UNCHANGED notFbs

\* batchStatusJob: client.Do fails because the context was cancelled.
FbsStatusCancelled ==
    /\ fbs # NoCall
    /\ fbs.ctxDone
    /\ \E w \in FbsWorkersAt("do") :
         FbsJobDone(w, BatchResponse(0), Err("ctx", ContextCanceled, w.jobID), 0)
    /\ UNCHANGED notFbs

\* batchStatusJob: client.Do fails, the status is not 200 (ResponseToError),
\* or the body does not decode.
FbsStatusFailed ==
    /\ fbs # NoCall
    /\ fbs.faults < MaxFaults
    /\ \E w \in FbsWorkersAt("do") :
         \E err \in {Err("fault", OtherMessage, w.jobID)}
                      \cup { ResponseToError(body, w.jobID) : body \in ErrorBodies } :
           FbsJobDone(w, BatchResponse(0), err, 1)
    /\ UNCHANGED notFbs

\* Mutant of FbsCollect: the response replaces the list instead of joining it.
FbsCollect_Overwrite(jobs, resp) == SetToBag({resp})

\* jobs = append(jobs, jobResp.resp).  The list is kept as a bag: its order
\* is the order in which the answers happened to arrive.
FbsCollect(jobs, resp) == jobs (+) SetToBag({resp})

\* for jobResp := range jobsOut: one iteration, receiving a worker's send.
\* The value addError returns is not assigned, and addError does not change
\* a nil receiver: jobserr stays as it was.
FbsDeliver ==
    /\ fbs # NoCall
    /\ fbs.mainPc = "range"
    /\ ~fbs.outClosed
    /\ \E w \in FbsWorkersAt("send") :
         fbs' = [fbs EXCEPT
                   !.workers = FbsContinue(w, FbsIdle),
                   !.jobs = IF w.err # NoErr THEN @ ELSE FbsCollect(@, w.resp),
                   !.jobserr = IF w.err # NoErr /\ fbs.jobserr # Nil
                                 THEN addError(fbs.jobserr, w.err)
                                 ELSE @]
    /\ UNCHANGED notFbs

\* Mutant of FbsWorkerExit: the worker leaves without wg.Done().
FbsWorkerExit_NoDone ==
    /\ fbs # NoCall
    /\ fbs.inClosed
    /\ BagIn(FbsIdle, fbs.workers)
    /\ fbs' = [fbs EXCEPT !.workers = @ (-) SetToBag({FbsIdle})]
    /\ UNCHANGED notFbs

\* for jobID := range jobIDsIn ends on the closed channel; defer wg.Done().
FbsWorkerExit ==
    /\ fbs # NoCall
    /\ fbs.inClosed
    /\ BagIn(FbsIdle, fbs.workers)
    /\ fbs' = [fbs EXCEPT !.workers = @ (-) SetToBag({FbsIdle}), !.wg = @ - 1]
    /\ UNCHANGED notFbs

\* wg.Wait(); close(jobsOut)
FbsCloseJobsOut ==
    /\ fbs # NoCall
    /\ fbs.wg = 0
    /\ ~fbs.outClosed
    /\ fbs' = [fbs EXCEPT !.outClosed = TRUE]
    /\ UNCHANGED notFbs

\* if jobserr != nil { return nil, jobserr }; return jobs, nil
FbsReturn ==
    /\ fbs # NoCall
    /\ fbs.mainPc = "range"
    /\ fbs.outClosed
    /\ fbs' = [fbs EXCEPT
                 !.mainPc = "returned",
                 !.ret = IF fbs.jobserr # Nil
                           THEN [returned |-> TRUE, jobs |-> EmptyBag, err |-> fbs.jobserr,
                                 jobsNil |-> TRUE]
                           ELSE [returned |-> TRUE, jobs |-> fbs.jobs, err |-> Nil,
                                 jobsNil |-> FALSE]]
    /\ UNCHANGED notFbs

\* The caller's context is cancelled while the call runs.
FbsCancel ==
    /\ fbs # NoCall
    /\ ~fbs.ctxDone
    /\ fbs.mainPc = "range"
    /\ fbs' = [fbs EXCEPT !.ctxDone = TRUE]
    /\ UNCHANGED notFbs

FbsNext ==
    \/ FbsSend
    \/ FbsExhausted
    \/ FbsCancelled
    \/ FbsCloseJobIDsIn
    \/ FbsStatusOK
    \/ FbsStatusCancelled
    \/ FbsStatusFailed
    \/ FbsDeliver
    \/ FbsWorkerExit
    \/ FbsCloseJobsOut
    \/ FbsReturn
    \/ FbsCancel

FbsSpec == FbsInit /\ [][FbsNext]_fbs

\* The steps the goroutines of the call take on their own: every step but the
\* caller cancelling the context.  A goroutine that can run does run, and a
\* status request returns.
FbsRuns ==
    \/ FbsSend
    \/ FbsExhausted
    \/ FbsCancelled
    \/ FbsCloseJobIDsIn
    \/ FbsStatusOK
    \/ FbsStatusCancelled
    \/ FbsStatusFailed
    \/ FbsDeliver
    \/ FbsWorkerExit
    \/ FbsCloseJobsOut
    \/ FbsReturn

\* The id lists that decide whether the call ends: none, one, as many ids
\* as the pool of 4 * NumCPU workers holds, and one id more than that.
FbsPoolLists ==
    { [i \in 1 .. n |-> i] : n \in {0, 1} \cup UNION { {4 * c, 4 * c + 1} : c \in CPUCounts } }

FbsLiveInit == FbsInit /\ fbs.jobIDs \in FbsPoolLists

FbsLiveSpec == FbsLiveInit /\ [][FbsNext]_fbs /\ WF_fbs(FbsRuns)

(***************************************************************************)
(* Properties of FetchBatchStatus.                                         *)
(***************************************************************************)
FbsReturned == fbs # NoCall /\ fbs.ret.returned

\* Status requests that failed, not by cancellation.
FbsRealFailures == { e \in BagToSet(fbs.failed) : e.origin # "ctx" }

\* The job ids of the returned records, and the ids asked for.
FbsReturnedIDs == [ r \in BagToSet(fbs.ret.jobs) |-> fbs.ret.jobs[r] ]

FbsAskedIDs ==
    [ r \in { BatchResponse(fbs.jobIDs[i]) : i \in 1 .. Len(fbs.jobIDs) } |->
        Cardinality({ i \in 1 .. Len(fbs.jobIDs) : BatchResponse(fbs.jobIDs[i]) = r }) ]

\* C11 (as claimed): if the status request of some job id failed with an
\* error other than cancellation, FetchBatchStatus returns a non-nil
\* composite error that contains that failure.
C11_FailureIsReturned ==
    FbsReturned =>
        \A e \in FbsRealFailures :
            fbs.ret.err # Nil /\ BagIn(e, fbs.ret.err.errors)

\* C12: when every status request succeeded and the signal did not fire,
\* FetchBatchStatus returns a nil error and one record per requested job id:
\* the returned job ids are the requested ones, each as often as requested.
C12_OneRecordPerJobID ==
    (FbsReturned /\ ~fbs.ctxDone /\ fbs.failed = EmptyBag) =>
        /\ fbs.ret.err = Nil
        /\ FbsReturnedIDs = FbsAskedIDs

\* A call with more job ids than workers has returned all its records.
C12_Witness ==
    /\ FbsReturned
    /\ ~fbs.ctxDone
    /\ fbs.failed = EmptyBag
    /\ Len(fbs.jobIDs) > fbs.numParallel
    /\ BagCardinality(fbs.ret.jobs) = Len(fbs.jobIDs)

\* Every goroutine of the call has finished: the producer has closed
\* jobIDsIn, no worker is left, the closer has closed jobsOut.
FbsAllExited ==
    /\ fbs.prodPc = "exit"
    /\ fbs.inClosed
    /\ fbs.workers = EmptyBag
    /\ fbs.wg = 0
    /\ fbs.outClosed

\* C36: FetchBatchStatus always returns, and its producer, its workers and
\* its closer all exit, whatever the id list (empty, or longer than the pool
\* of workers), whichever requests fail, and whenever the context is
\* cancelled.  At the return itself the workers and the closer have exited;
\* the producer has too unless the list is empty, where closing jobIDsIn is
\* the one statement it may still have to run.
C36_FetchBatchStatusTerminates ==
    /\ <>[](FbsReturned /\ FbsAllExited)
    /\ [](FbsReturned =>
            /\ fbs.workers = EmptyBag
            /\ fbs.wg = 0
            /\ fbs.outClosed
            /\ (Len(fbs.jobIDs) > 0 => (fbs.prodPc = "exit" /\ fbs.inClosed)))

C36_Witness ==
    /\ FbsReturned
    /\ FbsAllExited
    /\ Len(fbs.jobIDs) > 4 * numCPU
    /\ fbs.ctxDone
    /\ fbs.failed # EmptyBag
    /\ fbs.next <= Len(fbs.jobIDs)

\* C33 (as claimed): when FetchBatchStatus, called with a single job id,
\* returns a nil error, the returned list holds that job's record, so that
\* jobs[0] can be read, whether the request succeeded, failed or was cut
\* short by cancellation.
C33_SingleJobRecordReturned ==
    (FbsReturned /\ Len(fbs.jobIDs) = 1 /\ fbs.ret.err = Nil) =>
        BagIn(BatchResponse(fbs.jobIDs[1]), fbs.ret.jobs)

(***************************************************************************)
(* Part 3: S3Accessor.RDADeleteBatchJobArtifacts.  The objects listed      *)
(* under the job's prefix are numbered 0 .. n-1 in the order of the        *)
(* listing; the store is the set of the objects still in it.               *)
(***************************************************************************)
\* Largest number of full delete batches of a call.
MaxFullBatches == 2
\* The listings modelled hold up to SizeSpread objects more or fewer than a
\* whole number of batches.
SizeSpread == 4

\* "Delete them in batches of up to 1000 (an S3 api limit)."
DeleteBatchSize == 1000

\* The state outside the delete call.
notDel == << vars, fbs, dl, watch, graph, geo, subset, vrt >>

\* The numbers of objects under the job's prefix.
ObjectCounts ==
    { b * DeleteBatchSize + d : b \in 0 .. MaxFullBatches, d \in (-SizeSpread) .. SizeSpread }
      \cap Nat

DelInit ==
    /\ RealizeIdle
    /\ graph = NoCall
    /\ geo = NoCall
    /\ subset = NoCall
    /\ vrt = NoCall
    /\ fbs = NoCall
    /\ dl = NoCall
    /\ watch = NoCall
    /\ \E n \in ObjectCounts :
         del = [call |-> "RDADeleteBatchJobArtifacts",
                store |-> 0 .. (n - 1),
                store0 |-> 0 .. (n - 1),
                pc |-> "list",
                objects |-> 0,
                i |-> 0,
                requests |-> << >>,
                ret |-> [returned |-> FALSE, count |-> 0, err |-> FALSE]]

\* objects, err := a.listBatchJobArtifacts(ctx, jobID): every object under
\* the prefix, all pages.
DelList ==
    /\ del # NoCall
    /\ del.pc = "list"
    /\ del' = [del EXCEPT !.pc = "loop", !.objects = Cardinality(del.store)]
    /\ UNCHANGED notDel

\* if err != nil { return 0, err }
DelListFailed ==
    /\ del # NoCall
    /\ del.pc = "list"
    /\ del' = [del EXCEPT !.pc = "returned",
                          !.ret = [returned |-> TRUE, count |-> 0, err |-> TRUE]]
    /\ UNCHANGED notDel

\* Mutant of BatchEnd: the inner loop runs one key too far (j <= i+1000).
BatchEnd_Inclusive(i, n) ==
    IF i + DeleteBatchSize + 1 < n THEN i + DeleteBatchSize + 1 ELSE n

\* for j := i; j < i+1000 && j < len(objects); j++: the first j not taken.
BatchEnd(i, n) == IF i + DeleteBatchSize < n THEN i + DeleteBatchSize ELSE n

\* One pass of the outer loop whose DeleteObjectsWithContext succeeds: the
\* keys objects[i .. BatchEnd-1] leave the store; i += 1000.
DelBatchOK ==
    /\ del # NoCall
    /\ del.pc = "loop"
    /\ del.i < del.objects
    /\ LET hi == BatchEnd(del.i, del.objects) IN
         del' = [del EXCEPT
                   !.requests = Append(@, [lo |-> del.i, hi |-> hi, ok |-> TRUE]),
                   !.store = @ \ (del.i .. (hi - 1)),
                   !.i = @ + DeleteBatchSize]
    /\ UNCHANGED notDel

\* One pass whose DeleteObjectsWithContext fails (the request failed or the
\* context was cancelled): return 0, errors.Wrapf(err, ...)
DelBatchFailed ==
    /\ del # NoCall
    /\ del.pc = "loop"
    /\ del.i < del.objects
    /\ LET hi == BatchEnd(del.i, del.objects) IN
         del' = [del EXCEPT
                   !.requests = Append(@, [lo |-> del.i, hi |-> hi, ok |-> FALSE]),
                   !.pc = "returned",
                   !.ret = [returned |-> TRUE, count |-> 0, err |-> TRUE]]
    /\ UNCHANGED notDel

\* return len(objects), nil
DelReturn ==
    /\ del # NoCall
    /\ del.pc = "loop"
    /\ del.i >= del.objects
    /\ del' = [del EXCEPT !.pc = "returned",
                          !.ret = [returned |-> TRUE, count |-> del.objects, err |-> FALSE]]
    /\ UNCHANGED notDel

DelNext ==
    \/ DelList
    \/ DelListFailed
    \/ DelBatchOK
    \/ DelBatchFailed
    \/ DelReturn

DelSpec == DelInit /\ [][DelNext]_del

(***************************************************************************)
(* Properties of RDADeleteBatchJobArtifacts.                               *)
(***************************************************************************)
DelReturned == del # NoCall /\ del.ret.returned

\* The delete requests issued so far.
DelRequests == { del.requests[k] : k \in 1 .. Len(del.requests) }

\* The number of objects the call has removed from the store.
DelRemoved == Cardinality(del.store0 \ del.store)

\* C17 (as claimed): whether all delete requests succeeded or one failed, the
\* count returned is the number of objects the call removed from the store.
C17_CountIsNumberRemoved ==
    DelReturned => del.ret.count = DelRemoved

\* C18: every delete request carries between 1 and 1000 keys, and when the
\* call returns without error every listed key was sent in exactly one
\* request.
C18_BatchesOfUpTo1000 ==
    del # NoCall =>
        /\ \A r \in DelRequests : r.hi - r.lo >= 1 /\ r.hi - r.lo <= 1000
        /\ (DelReturned /\ ~del.ret.err) =>
             \A key \in 0 .. (del.objects - 1) :
                 Cardinality({ k \in 1 .. Len(del.requests) :
                                 del.requests[k].lo <= key /\ key < del.requests[k].hi }) = 1

\* A call that listed more than 1000 objects, not a whole number of batches,
\* has returned without error.
C18_Witness ==
    /\ DelReturned
    /\ ~del.ret.err
    /\ del.objects > 1000
    /\ del.objects % 1000 # 0
    /\ Len(del.requests) >= 2

(***************************************************************************)
(* Part 4: S3Accessor.DownloadBatchJobArtifacts ("Plan") and the function  *)
(* it returns ("run": downloadArtifacts / downloadArtifact).  The state    *)
(* holds the bucket, the output directory and the caller's context; the    *)
(* caller starts a round by setting pc to "plan" and finds the outcome,    *)
(* with pc "done", as the last entry of rounds.                            *)
(***************************************************************************)
\* Largest number of objects under the job's prefix.
MaxKeys == 3
\* Largest number of Plan/run rounds of one caller.
MaxRounds == 2

\* The state outside the download.
notDl == << vars, fbs, del, graph, geo, subset, vrt >>

\* The keys of the objects; the bucket lists them in this order.
Keys == 1 .. MaxKeys

\* filepath.Join(outDir, strings.TrimPrefix(strings.Join(paths[2:], "/"), jobID)):
\* the file an object is written to.  The prefix listed has no trailing
\* slash and TrimPrefix cuts a string, not a path component, so that two keys
\* can name one file (with job id "j": ".../rda/j/0/x" and ".../rda/j0/x"
\* both give outDir/0/x); keys 1 and 2 are such a pair.
FileOf(key) == IF key = 2 THEN 1 ELSE key

\* Mutant of DlStatExists: nothing is filtered out.
DlStatExists_Never(files, file) == FALSE

\* os.Stat(file); !os.IsNotExist(err)
DlStatExists(files, file) == file \in files

\* Mutant of DlRemove: the deferred removal left out.
DlRemove_Forgotten(files, file, ok) == files

\* os.Remove(file) in downloadArtifact's deferred function.
DlRemove(files, file, ok) == IF ok THEN files \ {file} ELSE files

\* The keys of set S in listing order.
RECURSIVE InOrder(_)
InOrder(S) ==
    IF S = {} THEN << >>
    ELSE LET m == CHOOSE x \in S : \A y \in S : x <= y
         IN  << m >> \o InOrder(S \ {m})

\* toDL: the objects listed whose file is not in outDir, in listing order.
ToDL(store, files) == InOrder({ key \in store : ~DlStatExists(files, FileOf(key)) })

\* The outcome of a round that is under way.
NoRound ==
    [listing |-> {}, planErr |-> FALSE, count |-> 0, numDL |-> 0, runErr |-> NoErr,
     failedKey |-> 0, failedAt |-> "none", written |-> {}]

\* A bucket and an output directory, neither of them empty or not.
DlStart(store, files) ==
    [call |-> "DownloadBatchJobArtifacts",
     store |-> store,
     files |-> files,
     ctxDone |-> FALSE,
     pc |-> "idle",
     toDL |-> << >>,
     k |-> 1,
     round |-> NoRound,
     rounds |-> << >>,
     progress |-> 0,
     removeFailed |-> {},
     faults |-> 0]

\* A round ends: its outcome joins rounds.
DlDone(round) == [dl EXCEPT !.pc = "done", !.round = round, !.rounds = Append(@, round)]

\* DownloadBatchJobArtifacts: MkdirAll, the listing and the filter succeed;
\* the caller calls the function returned.
DlPlan ==
    /\ dl # NoCall
    /\ dl.pc = "plan"
    /\ dl' = [dl EXCEPT
                !.pc = "run",
                !.toDL = ToDL(dl.store, dl.files),
                !.k = 1,
                !.round = [NoRound EXCEPT !.listing = dl.store,
                                          !.count = Len(ToDL(dl.store, dl.files))]]
    /\ UNCHANGED << notDl, watch >>

\* DownloadBatchJobArtifacts returns an error: os.MkdirAll or the listing
\* failed (a fault, or the context cancelled).
DlPlanFailed ==
    /\ dl # NoCall
    /\ dl.pc = "plan"
    /\ dl.ctxDone \/ dl.faults < MaxFaults
    /\ dl' = [DlDone([NoRound EXCEPT !.planErr = TRUE])
                EXCEPT !.faults = IF dl.ctxDone THEN @ ELSE @ + 1]
    /\ UNCHANGED << notDl, watch >>

\* downloadArtifact succeeds: the file is created and written; then
\* a.progressFunc().
DlDownloadOK ==
    /\ dl # NoCall
    /\ dl.pc = "run"
    /\ dl.k <= Len(dl.toDL)
    /\ dl' = [dl EXCEPT
                !.files = @ \cup {FileOf(dl.toDL[dl.k])},
                !.round.written = @ \cup {FileOf(dl.toDL[dl.k])},
                !.round.numDL = @ + 1,
                !.progress = @ + 1,
                !.k = @ + 1]
    /\ UNCHANGED << notDl, watch >>

\* downloadArtifact: os.MkdirAll or os.Create fails; nothing was created and
\* nothing is removed.
DlCreateFailed ==
    /\ dl # NoCall
    /\ dl.pc = "run"
    /\ dl.k <= Len(dl.toDL)
    /\ dl.faults < MaxFaults
    /\ dl' = [DlDone([dl.round EXCEPT !.runErr = Err("fault", OtherMessage, dl.toDL[dl.k]),
                                      !.failedKey = dl.toDL[dl.k],
                                      !.failedAt = "create"])
                EXCEPT !.faults = @ + 1]
    /\ UNCHANGED << notDl, watch >>

\* downloadArtifact: os.Create succeeds and DownloadWithContext fails, by a
\* fault or by the cancelled context; the deferred function closes the file
\* and calls os.Remove, which may fail in its turn.
DlDownloadFailed ==
    /\ dl # NoCall
    /\ dl.pc = "run"
    /\ dl.k <= Len(dl.toDL)
    /\ \E cancelled \in { c \in BOOLEAN : c => dl.ctxDone }, removeOK \in BOOLEAN :
         LET n    == (IF cancelled THEN 0 ELSE 1) + (IF removeOK THEN 0 ELSE 1)
             file == FileOf(dl.toDL[dl.k])
             err  == IF cancelled THEN Err("ctx", ContextCanceled, dl.toDL[dl.k])
                                  ELSE Err("fault", OtherMessage, dl.toDL[dl.k])
         IN  /\ dl.faults + n <= MaxFaults
             /\ dl' = [DlDone([dl.round EXCEPT !.runErr = err,
                                               !.failedKey = dl.toDL[dl.k],
                                               !.failedAt = "download"])
                         EXCEPT !.files = DlRemove(@ \cup {file}, file, removeOK),
                                !.removeFailed = IF removeOK THEN @ ELSE @ \cup {file},
                                !.faults = @ + n]
    /\ UNCHANGED << notDl, watch >>

\* downloadArtifacts: the loop over dlLoc ends, return nil.
DlRunReturn ==
    /\ dl # NoCall
    /\ dl.pc = "run"
    /\ dl.k > Len(dl.toDL)
    /\ dl' = DlDone(dl.round)
    /\ UNCHANGED << notDl, watch >>

\* The batch job writes one more artifact into the bucket.
DlArrives ==
    /\ dl # NoCall
    /\ \E key \in Keys \ dl.store :
         dl' = [dl EXCEPT !.store = @ \cup {key}]
    /\ UNCHANGED << notDl, watch >>

\* The caller's context is cancelled.
DlCancel ==
    /\ dl # NoCall
    /\ ~dl.ctxDone
    /\ dl' = [dl EXCEPT !.ctxDone = TRUE]
    /\ UNCHANGED << notDl, watch >>

\* A caller that runs Plan and then run, time after time (the download
\* command run again).
DlCall ==
    /\ dl # NoCall
    /\ dl.pc \in {"idle", "done"}
    /\ Len(dl.rounds) < MaxRounds
    /\ dl' = [dl EXCEPT !.pc = "plan"]
    /\ UNCHANGED << notDl, watch >>

DlInit ==
    /\ RealizeIdle
    /\ graph = NoCall
    /\ geo = NoCall
    /\ subset = NoCall
    /\ vrt = NoCall
    /\ fbs = NoCall
    /\ del = NoCall
    /\ watch = NoCall
    /\ \E store \in SUBSET Keys, files \in SUBSET { FileOf(key) : key \in Keys } :
         dl = DlStart(store, files)

DlNext ==
    \/ DlCall
    \/ DlPlan
    \/ DlPlanFailed
    \/ DlDownloadOK
    \/ DlCreateFailed
    \/ DlDownloadFailed
    \/ DlRunReturn
    \/ DlArrives
    \/ DlCancel

DlSpec == DlInit /\ [][DlNext]_dl

(***************************************************************************)
(* Properties of the download.                                             *)
(***************************************************************************)
\* Round r ran to its end without error.
RanWithoutError(r) == ~r.planErr /\ r.runErr = NoErr

\* The round that has just ended is one whose download failed.
DlRunFailed == dl # NoCall /\ dl.pc = "done" /\ dl.round.failedKey # 0

\* C15: after a run that completed without error, Plan for the same job and
\* directory with the listing unchanged returns count 0 and its run downloads
\* nothing.
C15_PlanRunIdempotent ==
    dl # NoCall =>
        \A i \in 1 .. (Len(dl.rounds) - 1) :
            ( /\ RanWithoutError(dl.rounds[i])
              /\ ~dl.rounds[i + 1].planErr
              /\ dl.rounds[i + 1].listing = dl.rounds[i].listing ) =>
                /\ dl.rounds[i + 1].count = 0
                /\ dl.rounds[i + 1].numDL = 0

\* A second round with nothing to do, after a first that downloaded two
\* artifacts or more.
C15_Witness ==
    /\ dl # NoCall
    /\ Len(dl.rounds) = 2
    /\ RanWithoutError(dl.rounds[1])
    /\ dl.rounds[1].numDL >= 2
    /\ RanWithoutError(dl.rounds[2])
    /\ dl.rounds[2].listing = dl.rounds[1].listing
    /\ dl.rounds[2].count = 0

\* C16 (as claimed): when run returns the error of a failed download, the
\* file of the failed artifact is not on disk.
C16_Original ==
    DlRunFailed => ~DlStatExists(dl.files, FileOf(dl.round.failedKey))

\* C16 (amended): when run returns the error of a failed download, the file
\* of the failed artifact is not on disk, unless os.Remove failed on it or
\* nothing was created for this artifact and the file is that of an artifact
\* downloaded earlier in the same run.
C16_FailedFileRemoved ==
    DlRunFailed =>
        \/ ~DlStatExists(dl.files, FileOf(dl.round.failedKey))
        \/ FileOf(dl.round.failedKey) \in dl.removeFailed
        \/ /\ dl.round.failedAt = "create"
           /\ FileOf(dl.round.failedKey) \in dl.round.written

\* A download has failed, the file was removed, and the next Plan schedules
\* the artifact again.
C16_Witness ==
    /\ dl # NoCall
    /\ dl.pc = "run"
    /\ Len(dl.rounds) >= 1
    /\ dl.rounds[Len(dl.rounds)].failedKey # 0
    /\ dl.rounds[Len(dl.rounds)].numDL >= 1
    /\ \E j \in 1 .. Len(dl.toDL) : dl.toDL[j] = dl.rounds[Len(dl.rounds)].failedKey

(***************************************************************************)
(* Part 5: the watch command (watchCmd of rda/cmd/job.go): poll the job's  *)
(* status, download what has arrived, sleep, and sweep once more when the  *)
(* job is complete.  Its downloads are those of Part 4.                    *)
(***************************************************************************)
\* Largest number of status polls of one watch.
MaxPolls == 2

\* jobs[0].Status.Status; "failed" stands for every status other than the
\* two the switch names.
JobStatuses == {"processing", "complete", "failed"}

\* Mutant of OnStatus: the default case left out, so that any other status
\* is treated as "processing".
OnStatus_NoDefault(status) == IF status = "complete" THEN "break" ELSE "sweep"

\* switch status := jobs[0].Status.Status
OnStatus(status) ==
    IF status = "complete" THEN "break"
    ELSE IF status = "processing" THEN "sweep"
    ELSE "fail"

\* Mutant of Suppressed: every download error is taken for a cancellation.
Suppressed_Always(err) == TRUE

\* if srcErr.Error() != "context canceled" { return err }; return nil
Suppressed(err) == err.cause = ContextCanceled

\* RunE returns.
WatchReturns(err) == [watch EXCEPT !.pc = "returned", !.ret = [returned |-> TRUE, err |-> err]]

WatchInit ==
    /\ RealizeIdle
    /\ graph = NoCall
    /\ geo = NoCall
    /\ subset = NoCall
    /\ vrt = NoCall
    /\ fbs = NoCall
    /\ del = NoCall
    /\ \E store \in SUBSET Keys, files \in SUBSET { FileOf(key) : key \in Keys } :
         dl = DlStart(store, files)
    /\ watch = [call |-> "watch",
                pc |-> "poll",
                statuses |-> << >>,
                finalSweep |-> FALSE,
                ret |-> [returned |-> FALSE, err |-> "none"]]

\* rda.FetchBatchStatus returns the job's record; the switch on its status.
WatchPoll ==
    /\ watch # NoCall
    /\ watch.pc = "poll"
    /\ Len(watch.statuses) < MaxPolls
    /\ \E status \in JobStatuses :
         watch' = [ (IF OnStatus(status) = "fail" THEN WatchReturns("BadJobState")
                     ELSE IF OnStatus(status) = "break"
                            THEN [watch EXCEPT !.pc = "finalAccessor"]
                            ELSE [watch EXCEPT !.pc = "accessor"])
                    EXCEPT !.statuses = Append(@, status) ]
    /\ UNCHANGED << notDl, dl >>

\* rda.FetchBatchStatus returns an empty list and a nil error (the status
\* request failed or was cancelled, or the id was never sent because the
\* context was done): jobs[0] is out of range and the command panics.
WatchPollNoRecord ==
    /\ watch # NoCall
    /\ watch.pc = "poll"
    /\ dl.ctxDone \/ dl.faults < MaxFaults
    /\ watch' = [watch EXCEPT !.pc = "panic"]
    /\ dl' = [dl EXCEPT !.faults = IF dl.ctxDone THEN @ ELSE @ + 1]
    /\ UNCHANGED notDl

\* gbdx.NewS3Accessor(client) fails, in the loop or after it.
WatchAccessorFailed ==
    /\ watch # NoCall
    /\ watch.pc \in {"accessor", "finalAccessor"}
    /\ dl.faults < MaxFaults
    /\ watch' = WatchReturns("accessor")
    /\ dl' = [dl EXCEPT !.faults = @ + 1]
    /\ UNCHANGED notDl

\* In the loop: accessor.DownloadBatchJobArtifacts(ctx, outDir, jobID) and,
\* when it succeeds, dlFunc().
WatchSweep ==
    /\ watch # NoCall
    /\ watch.pc = "accessor"
    /\ watch' = [watch EXCEPT !.pc = "sweep"]
    /\ dl' = [dl EXCEPT !.pc = "plan"]
    /\ UNCHANGED notDl

\* The outcome err of a round, for the caller: the error returned, or "none"
\* when there is none or it is suppressed.
WatchErrorOf(round) ==
    IF round.planErr THEN "plan"
    ELSE IF round.runErr # NoErr /\ ~Suppressed(round.runErr) THEN "download"
    ELSE "none"

\* In the loop: the round has ended.  An error of the plan, or of the run
\* unless it is a cancellation, is returned; a cancellation returns nil;
\* otherwise the command goes to sleep.
WatchSweepDone ==
    /\ watch # NoCall
    /\ watch.pc = "sweep"
    /\ dl.pc = "done"
    /\ watch' = IF dl.round.planErr \/ dl.round.runErr # NoErr
                  THEN WatchReturns(WatchErrorOf(dl.round))
                  ELSE [watch EXCEPT !.pc = "sleep"]
    /\ dl' = [dl EXCEPT !.pc = "idle"]
    /\ UNCHANGED notDl

\* select: case <-time.After(1 * time.Minute)
WatchSleepOver ==
    /\ watch # NoCall
    /\ watch.pc = "sleep"
    /\ watch' = [watch EXCEPT !.pc = "poll"]
    /\ UNCHANGED << notDl, dl >>

\* select: case <-ctx.Done(): return nil
WatchSleepCancelled ==
    /\ watch # NoCall
    /\ watch.pc = "sleep"
    /\ dl.ctxDone
    /\ watch' = WatchReturns("none")
    /\ UNCHANGED << notDl, dl >>

\* After the loop: the final DownloadBatchJobArtifacts and dlFunc().
WatchFinalSweep ==
    /\ watch # NoCall
    /\ watch.pc = "finalAccessor"
    /\ watch' = [watch EXCEPT !.pc = "finalSweep", !.finalSweep = TRUE]
    /\ dl' = [dl EXCEPT !.pc = "plan"]
    /\ UNCHANGED notDl

\* After the loop: the final round has ended; return its error, or nil.
WatchFinalSweepDone ==
    /\ watch # NoCall
    /\ watch.pc = "finalSweep"
    /\ dl.pc = "done"
    /\ watch' = WatchReturns(WatchErrorOf(dl.round))
    /\ dl' = [dl EXCEPT !.pc = "idle"]
    /\ UNCHANGED notDl

WatchNext ==
    \/ WatchPoll
    \/ WatchPollNoRecord
    \/ WatchAccessorFailed
    \/ WatchSweep
    \/ WatchSweepDone
    \/ WatchSleepOver
    \/ WatchSleepCancelled
    \/ WatchFinalSweep
    \/ WatchFinalSweepDone
    \/ DlPlan
    \/ DlPlanFailed
    \/ DlDownloadOK
    \/ DlCreateFailed
    \/ DlDownloadFailed
    \/ DlRunReturn
    \/ DlArrives
    \/ DlCancel

WatchSpec == WatchInit /\ [][WatchNext]_<< dl, watch >>

\* The steps of the command itself: everything but the arrival of artifacts
\* and the cancellation.  The command keeps running, and every request it
\* makes returns.
WatchRuns ==
    \/ WatchPoll
    \/ WatchPollNoRecord
    \/ WatchAccessorFailed
    \/ WatchSweep
    \/ WatchSweepDone
    \/ WatchSleepOver
    \/ WatchSleepCancelled
    \/ WatchFinalSweep
    \/ WatchFinalSweepDone
    \/ DlPlan
    \/ DlPlanFailed
    \/ DlDownloadOK
    \/ DlCreateFailed
    \/ DlDownloadFailed
    \/ DlRunReturn

WatchLiveSpec == WatchSpec /\ WF_<< dl, watch >>(WatchRuns)

(***************************************************************************)
(* Properties of watch.                                                    *)
(***************************************************************************)
WatchReturned == watch # NoCall /\ watch.ret.returned

\* watch has returned nil.
WatchSucceeded == WatchReturned /\ watch.ret.err = "none"

\* The last status fetched was "complete", the sweep after the loop ran to
\* its end without error, and every artifact it listed is in the output
\* directory.
CompleteAndSwept ==
    /\ watch.statuses # << >>
    /\ watch.statuses[Len(watch.statuses)] = "complete"
    /\ watch.finalSweep
    /\ dl.rounds # << >>
    /\ RanWithoutError(dl.rounds[Len(dl.rounds)])
    /\ \A key \in dl.rounds[Len(dl.rounds)].listing : FileOf(key) \in dl.files

\* C13 (as claimed): watch returns successfully only after it has seen the
\* state complete and has then swept once more, every artifact listed by
\* that sweep being in the output directory.
C13_Original == WatchSucceeded => CompleteAndSwept

\* C13 (amended): the same, unless the cancellation signal fired.
C13_SuccessAfterFinalSweep ==
    (WatchSucceeded /\ ~dl.ctxDone) => CompleteAndSwept

\* watch has returned nil, uncancelled, after a poll that found the job
\* processing and a final sweep that downloaded an artifact.
C13_Witness ==
    /\ WatchSucceeded
    /\ ~dl.ctxDone
    /\ Len(watch.statuses) = 2
    /\ dl.rounds[Len(dl.rounds)].numDL >= 1

\* C14: a status that is neither processing nor complete is the last one
\* watch fetches: it returns a BadJobState error at once, without a further
\* poll or sweep.
C14_BadJobStateEndsWatch ==
    watch # NoCall =>
        \A i \in 1 .. Len(watch.statuses) :
            watch.statuses[i] \notin {"processing", "complete"} =>
                /\ i = Len(watch.statuses)
                /\ watch.pc = "returned"
                /\ watch.ret.err = "BadJobState"
                /\ dl.pc \in {"idle", "done"}

\* watch has ended on a failed job after a poll that found it processing.
C14_Witness ==
    /\ watch # NoCall
    /\ watch.statuses = << "processing", "failed" >>
    /\ watch.ret.err = "BadJobState"

\* C35 (as claimed): in every iteration of the loop the artifacts are listed,
\* and the new ones downloaded, before the status is fetched: at any moment
\* there have been at least as many listings as status fetches.
C35_ListBeforeStatus ==
    watch # NoCall => Len(watch.statuses) <= Len(dl.rounds)

\* C34 (as claimed): once the cancellation signal has fired, watch returns
\* without reporting an error.  Left aside are the runs in which something
\* else went wrong (a fault, or a job status that ends the command).
C34_CancelledWatchReturnsNil ==
    (watch # NoCall /\ dl.ctxDone)
      ~> (WatchSucceeded \/ dl.faults > 0 \/ (WatchReturned /\ watch.ret.err = "BadJobState"))

(***************************************************************************)
(* Part 6: NewGraphFromAPI and Graph.findDefaultNode.  Nodes are numbered  *)
(* from 1 in the order of the payload's node list (the code numbers them   *)
(* from 0); node ids are numbers, ordered as the id strings are.           *)
(***************************************************************************)
\* Largest number of nodes and of edges of a payload.
MaxNodes == 5
MaxEdges == 4

\* The state outside the graph call.
notGraph == << vars, fbs, del, dl, watch, geo, subset, vrt >>

\* DefaultNodeID == "", and an id that no node of the payloads has.
NoId == 0
UnknownId == MaxNodes + 1

\* A payload is its node ids in order, the set of the (Source, Destination,
\* Index) triples of its edges, and its default node id.  A node's id stands
\* for the node: its Operator and Parameters are copied along with the id,
\* unread, by the decoder and by the encoder.  The ID of an edge is read by
\* nothing.

\* The sets of at most k edges out of S.
RECURSIVE EdgeSets(_, _)
EdgeSets(S, k) ==
    IF k = 0 THEN { {} }
    ELSE LET smaller == EdgeSets(S, k - 1)
         IN  smaller \cup { F \cup {e} : F \in smaller, e \in S }

\* The node list of ids 1 .. n.
RECURSIVE NodesUpTo(_)
NodesUpTo(n) == IF n = 0 THEN << >> ELSE Append(NodesUpTo(n - 1), n)

\* Node lists of repeated ids and of ids out of order.
OtherNodeLists == { << >>, << 1 >>, << 1, 2 >>, << 2, 1 >>, << 1, 1 >>, << 3, 1, 2 >> }

\* The ids of the node list.
NodeIds(payload) == { payload.Nodes[i] : i \in 1 .. Len(payload.Nodes) }

\* idToIdx[n.ID] = i for every node in turn: the last node of an id wins.
IdToIdx(payload) ==
    [ id \in NodeIds(payload) |->
        CHOOSE i \in 1 .. Len(payload.Nodes) :
            /\ payload.Nodes[i] = id
            /\ \A j \in 1 .. Len(payload.Nodes) : payload.Nodes[j] = id => j <= i ]

\* sort.Slice(resp.Edges, ...): the edges in the order of their destination
\* ids, edges of one destination in the order of their indices.  Edges of
\* one destination and one index, which the sort may leave in any order,
\* have different sources and go to different adjacency lists; they are
\* taken in the order of their sources.
RECURSIVE SortEdges(_)
SortEdges(E) ==
    IF E = {} THEN << >>
    ELSE LET first == CHOOSE e \in E :
                        \A f \in E : \/ e[2] < f[2]
                                      \/ (e[2] = f[2] /\ e[3] < f[3])
                                      \/ (e[2] = f[2] /\ e[3] = f[3] /\ e[1] <= f[1])
         IN  << first >> \o SortEdges(E \ {first})

\* for _, e := range graph.Edges { g.edges[srcIdx] = append(g.edges[srcIdx], ...) },
\* from the k-th edge on.
RECURSIVE AddEdges(_, _, _, _)
AddEdges(edges, idx, sorted, k) ==
    IF k > Len(sorted) THEN edges
    ELSE AddEdges([edges EXCEPT ![idx[sorted[k][1]]] =
                              Append(@, [nIdx |-> idx[sorted[k][2]], sourceIndex |-> sorted[k][3]])],
                  idx, sorted, k + 1)

\* The graph NewGraphFromAPI builds of a payload whose edges all resolve:
\* the list of a node holds its edges in the order of their destination ids.
BuildGraph(payload) ==
    [n |-> Len(payload.Nodes),
     edges |-> AddEdges([i \in 1 .. Len(payload.Nodes) |-> << >>], IdToIdx(payload),
                        SortEdges(payload.Edges), 1)]

\* newCycles
newCycles(g) ==
    [onStack |-> [i \in 1 .. g.n |-> FALSE],
     marked |-> [i \in 1 .. g.n |-> FALSE],
     edgeTo |-> [i \in 1 .. g.n |-> 0],
     cycle |-> << >>,
     postTraversal |-> << >>]

\* for x := nIdx; x != e.nIdx; x = c.edgeTo[x] { c.cycle = append(c.cycle, x) }
RECURSIVE CyclePath(_, _, _)
CyclePath(c, x, target) ==
    IF x = target THEN << >> ELSE << x >> \o CyclePath(c, c.edgeTo[x], target)

\* case c.onStack[e.nIdx]
OnStack(c, j) == c.onStack[j]

\* cycles.findCycle, and its loop over c.g.edges[nIdx] from the k-th edge
\* on; bailed tells that the loop was left by the return of its first case,
\* so that nIdx is not appended to postTraversal.
RECURSIVE findCycle(_, _, _), findCycleEdges(_, _, _, _)
\* Mutant of findCycle: the node is recorded before its edges are followed.
findCycle_PreOrder(g, c, nIdx) ==
    LET r == findCycleEdges(g, [c EXCEPT !.onStack[nIdx] = TRUE, !.marked[nIdx] = TRUE,
                                         !.postTraversal = Append(@, nIdx)],
                            nIdx, 1)
    IN  [r.c EXCEPT !.onStack[nIdx] = FALSE]

findCycle(g, c, nIdx) ==
    LET r == findCycleEdges(g, [c EXCEPT !.onStack[nIdx] = TRUE, !.marked[nIdx] = TRUE],
                            nIdx, 1)
    IN  [r.c EXCEPT !.onStack[nIdx] = FALSE,
                    !.postTraversal = IF r.bailed THEN @ ELSE Append(@, nIdx)]

findCycleEdges(g, c, nIdx, k) ==
    IF k > Len(g.edges[nIdx]) THEN [c |-> c, bailed |-> FALSE]
    ELSE LET j == g.edges[nIdx][k].nIdx IN
         IF c.cycle # << >> THEN [c |-> c, bailed |-> TRUE]
         ELSE IF ~c.marked[j]
           THEN findCycleEdges(g, findCycle(g, [c EXCEPT !.edgeTo[j] = nIdx], j), nIdx, k + 1)
         ELSE IF OnStack(c, j)
           THEN findCycleEdges(g, [c EXCEPT !.cycle = CyclePath(c, nIdx, j) \o << j, nIdx >>],
                               nIdx, k + 1)
         ELSE findCycleEdges(g, c, nIdx, k + 1)

\* findDefaultNode: for nIdx := range g.nodes, from node nIdx on.
RECURSIVE FindCycles(_, _, _)
FindCycles(g, c, nIdx) ==
    IF nIdx > g.n \/ c.cycle # << >> THEN c
    ELSE IF c.marked[nIdx] THEN FindCycles(g, c, nIdx + 1)
    ELSE FindCycles(g, findCycle(g, c, nIdx), nIdx + 1)

\* for _, e := range g.edges[nIdx] { ndist[e.nIdx] = ndist[nIdx] + 1 },
\* from the k-th edge on.
RECURSIVE Cascade(_, _, _, _)
Cascade(g, ndist, nIdx, k) ==
    IF k > Len(g.edges[nIdx]) THEN ndist
    ELSE Cascade(g, [ndist EXCEPT ![g.edges[nIdx][k].nIdx] = ndist[nIdx] + 1], nIdx, k + 1)

\* for i := len(g.nodes) - 1; i >= 0; i-- { nIdx := c.postTraversal[i]; ... }
RECURSIVE Distances(_, _, _, _)
Distances(g, post, ndist, i) ==
    IF i < 1 THEN ndist
    ELSE Distances(g, post, Cascade(g, ndist, post[i], 1), i - 1)

\* for i, dist := range ndist: the terminal node of the greatest distance,
\* the first of them; best is (maxNode, maxDist).
RECURSIVE MaxTerminal(_, _, _, _)
MaxTerminal(g, ndist, i, best) ==
    IF i > g.n THEN best.maxNode
    ELSE IF Len(g.edges[i]) # 0 \/ best.maxDist >= ndist[i]
      THEN MaxTerminal(g, ndist, i + 1, best)
      ELSE MaxTerminal(g, ndist, i + 1, [maxNode |-> i, maxDist |-> ndist[i]])

\* Graph.findDefaultNode: (maxNode, err).  maxNode starts as the first node.
DefaultNodeAfter(g, c) ==
    IF c.cycle # << >>
      THEN [err |-> "cycle", node |-> 1]
      ELSE [err |-> "none",
            node |-> MaxTerminal(g, Distances(g, c.postTraversal, [i \in 1 .. g.n |-> 0], g.n),
                                 1, [maxNode |-> 1, maxDist |-> 0])]

findDefaultNode(g) == DefaultNodeAfter(g, FindCycles(g, newCycles(g), 1))

\* The cycles helper as findDefaultNode leaves it: c.cycle, which the error
\* lists, and c.postTraversal.  NewGraphFromAPI does not get that far when
\* an id is repeated or an edge names an unknown node.
Traversal(payload) ==
    IF \/ Cardinality(NodeIds(payload)) # Len(payload.Nodes)
       \/ \E e \in payload.Edges : e[1] \notin NodeIds(payload) \/ e[2] \notin NodeIds(payload)
      THEN newCycles([n |-> 0])
      ELSE FindCycles(BuildGraph(payload), newCycles(BuildGraph(payload)), 1)

\* Mutant of WithDefaultNode: the error of findDefaultNode is dropped.
WithDefaultNode_ErrDropped(payload, idx, g, found) ==
    IF payload.DefaultNodeID \in DOMAIN idx
      THEN [err |-> "none", nodes |-> payload.Nodes, edges |-> g.edges, defaultNode |-> idx[payload.DefaultNodeID]]
    ELSE IF payload.DefaultNodeID # NoId
      THEN [err |-> "default node", nodes |-> << >>, edges |-> << >>, defaultNode |-> 0]
    ELSE [err |-> "none", nodes |-> payload.Nodes, edges |-> g.edges, defaultNode |-> found.node]

\* NewGraphFromAPI from the call of findDefaultNode on.
WithDefaultNode(payload, idx, g, found) ==
    IF found.err # "none"
      THEN [err |-> "cycle", nodes |-> << >>, edges |-> << >>, defaultNode |-> 0]
    ELSE IF payload.DefaultNodeID \in DOMAIN idx
      THEN [err |-> "none", nodes |-> payload.Nodes, edges |-> g.edges, defaultNode |-> idx[payload.DefaultNodeID]]
    ELSE IF payload.DefaultNodeID # NoId
      THEN [err |-> "default node", nodes |-> << >>, edges |-> << >>, defaultNode |-> 0]
    ELSE [err |-> "none", nodes |-> payload.Nodes, edges |-> g.edges, defaultNode |-> found.node]

\* Mutant of NewGraphFromAPI: the count of unique ids is not compared.
NewGraphFromAPI_NoIdCheck(payload) ==
    IF \E e \in payload.Edges : e[1] \notin NodeIds(payload) \/ e[2] \notin NodeIds(payload)
      THEN [err |-> "endpoint", nodes |-> << >>, edges |-> << >>, defaultNode |-> 0]
    ELSE WithDefaultNode(payload, IdToIdx(payload), BuildGraph(payload),
                         findDefaultNode(BuildGraph(payload)))

\* NewGraphFromAPI: (graph, err) for a payload that decoded.
NewGraphFromAPI(payload) ==
    IF Cardinality(NodeIds(payload)) # Len(payload.Nodes)
      THEN [err |-> "node ids", nodes |-> << >>, edges |-> << >>, defaultNode |-> 0]
    ELSE IF \E e \in payload.Edges : e[1] \notin NodeIds(payload) \/ e[2] \notin NodeIds(payload)
      THEN [err |-> "endpoint", nodes |-> << >>, edges |-> << >>, defaultNode |-> 0]
    ELSE WithDefaultNode(payload, IdToIdx(payload), BuildGraph(payload),
                         findDefaultNode(BuildGraph(payload)))

\* No graph returned yet, and nothing encoded yet.
NoGraph == [err |-> "none", nodes |-> << >>, edges |-> << >>, defaultNode |-> 0]

NoRdaGraph == [DefaultNodeID |-> NoId, Nodes |-> << >>, Edges |-> << >>]

\* Graph.toRDA: the loop over g.edges, from the k-th edge of node srcID on;
\* the ID of an edge is the number of the edges written before it.
RECURSIVE rdaEdges(_, _, _, _)
rdaEdges(g, srcID, k, written) ==
    IF srcID > Len(g.edges) THEN written
    ELSE IF k > Len(g.edges[srcID]) THEN rdaEdges(g, srcID + 1, 1, written)
    ELSE rdaEdges(g, srcID, k + 1,
                  Append(written, [ID |-> Len(written),
                                   Index |-> g.edges[srcID][k].sourceIndex,
                                   Source |-> g.nodes[srcID],
                                   Destination |-> g.nodes[g.edges[srcID][k].nIdx]]))

\* g.nodes[g.defaultNode] of Graph.toRDA is an index out of range.
toRDAPanics(g) == g.defaultNode \notin 1 .. Len(g.nodes)

\* Graph.toRDA, which MarshalJSON writes out.
toRDA(g) ==
    [DefaultNodeID |-> g.nodes[g.defaultNode],
     Nodes |-> g.nodes,
     Edges |-> rdaEdges(g, 1, 1, << >>)]

\* What NewGraphFromAPI reads of an encoded graph: the ID of an edge is read
\* by nothing.
Decoded(rg) ==
    [Nodes |-> rg.Nodes,
     Edges |-> { << rg.Edges[i].Source, rg.Edges[i].Destination, rg.Edges[i].Index >> :
                   i \in 1 .. Len(rg.Edges) },
     DefaultNodeID |-> rg.DefaultNodeID]

\* The edges E, each with its place among the inputs of its destination as
\* its Index.
InputIndexed(E) ==
    { << e[1], e[2], Cardinality({ f \in E : f[2] = e[2] /\ f[1] < e[1] }) >> : e \in E }

\* The call of NewGraphFromAPI on a payload.
GraphCall(Nodes, Edges, DefaultNodeID) ==
    graph = [call |-> "NewGraphFromAPI",
             payload |-> [Nodes |-> Nodes, Edges |-> Edges, DefaultNodeID |-> DefaultNodeID],
             pc |-> "call",
             result |-> NoGraph,
             dfs |-> newCycles([n |-> 0]),
             encoded |-> NoRdaGraph,
             again |-> NoGraph]

\* The payloads parsed: nodes 1 .. n with edges from lower to higher ids
\* (graphs without cycle, whatever their edges), nodes 1 .. n with any
\* edges, self loops included, for one node fewer, and payloads of repeated
\* ids, ids out of order, edges to unknown ids, edges of any index, several
\* of them between two nodes, and a default node id.
GraphInit ==
    /\ RealizeIdle
    /\ fbs = NoCall
    /\ del = NoCall
    /\ dl = NoCall
    /\ watch = NoCall
    /\ geo = NoCall
    /\ subset = NoCall
    /\ vrt = NoCall
    /\ \/ \E n \in 0 .. MaxNodes :
            \E E \in EdgeSets({ e \in (1 .. n) \X (1 .. n) : e[1] < e[2] }, MaxEdges) :
              GraphCall(NodesUpTo(n), InputIndexed(E), NoId)
       \/ \E n \in 0 .. MaxNodes - 1 :
            \E E \in EdgeSets((1 .. n) \X (1 .. n), MaxEdges) :
              GraphCall(NodesUpTo(n), InputIndexed(E), NoId)
       \/ \E N \in OtherNodeLists :
            \E E \in EdgeSets({1, 2, UnknownId} \X {1, 2, UnknownId} \X {0, 1}, 2) :
              \E d \in {NoId, 1, UnknownId} :
                GraphCall(N, E, d)

\* The call returns.
GraphParse ==
    /\ graph # NoCall
    /\ graph.pc = "call"
    /\ graph' = [graph EXCEPT !.pc = "returned", !.result = NewGraphFromAPI(graph.payload),
                              !.dfs = Traversal(graph.payload)]
    /\ UNCHANGED notGraph

GraphNext == GraphParse

GraphSpec == GraphInit /\ [][GraphNext]_graph

\* MarshalJSON of a graph that NewGraphFromAPI returned.
GraphMarshal ==
    /\ graph # NoCall
    /\ graph.pc = "returned"
    /\ graph.result.err = "none"
    /\ ~toRDAPanics(graph.result)
    /\ graph' = [graph EXCEPT !.pc = "encoded", !.encoded = toRDA(graph.result)]
    /\ UNCHANGED notGraph

\* MarshalJSON panics.
GraphMarshalPanics ==
    /\ graph # NoCall
    /\ graph.pc = "returned"
    /\ graph.result.err = "none"
    /\ toRDAPanics(graph.result)
    /\ graph' = [graph EXCEPT !.pc = "panic"]
    /\ UNCHANGED notGraph

\* NewGraphFromAPI of what MarshalJSON wrote.
GraphParseAgain ==
    /\ graph # NoCall
    /\ graph.pc = "encoded"
    /\ graph' = [graph EXCEPT !.pc = "decoded",
                              !.again = NewGraphFromAPI(Decoded(graph.encoded))]
    /\ UNCHANGED notGraph

RoundTripNext ==
    \/ GraphParse
    \/ GraphMarshal
    \/ GraphMarshalPanics
    \/ GraphParseAgain

\* Decode, encode, decode.
RoundTripSpec == GraphInit /\ [][RoundTripNext]_graph

(***************************************************************************)
(* Properties of NewGraphFromAPI                                           *)
(***************************************************************************)

GraphReturned == graph # NoCall /\ graph.pc = "returned"

GraphAccepted == GraphReturned /\ graph.result.err = "none"

\* The pairs joined by a path of at least one edge of E, R being the pairs
\* joined by a path of at most k edges fewer than the longest looked for.
RECURSIVE PathsOver(_, _, _)
PathsOver(E, R, k) ==
    IF k = 0 THEN R
    ELSE PathsOver(E, R \cup { << re[1][1], re[2][2] >> :
                                 re \in { x \in R \X E : x[1][2] = x[2][1] } }, k - 1)

\* The edges form a directed cycle.
HasCycle(E) ==
    LET pairs == { << e[1], e[2] >> : e \in E }
    IN  \E r \in PathsOver(pairs, pairs, Cardinality(pairs)) : r[1] = r[2]

UniqueNodeIds(payload) == Cardinality(NodeIds(payload)) = Len(payload.Nodes)

ResolvableEndpoints(payload) ==
    \A e \in payload.Edges : e[1] \in NodeIds(payload) /\ e[2] \in NodeIds(payload)

\* C19 as stated: a graph is returned only if its edges contain no directed
\* cycle, every payload whose edges form a directed cycle is rejected with a
\* Cycle error, and every payload without cycle, with unique node ids and
\* resolvable edge endpoints, is accepted.
C19_Original ==
    GraphReturned =>
        /\ GraphAccepted => ~HasCycle(graph.payload.Edges)
        /\ HasCycle(graph.payload.Edges) => graph.result.err = "cycle"
        /\ ( /\ ~HasCycle(graph.payload.Edges)
             /\ UniqueNodeIds(graph.payload)
             /\ ResolvableEndpoints(graph.payload) ) => GraphAccepted

\* C19: a graph is returned only if its edges contain no directed cycle;
\* every payload with unique node ids and resolvable edge endpoints whose
\* edges form a directed cycle is rejected with a Cycle error; and every
\* payload without cycle, with unique node ids, resolvable edge endpoints and
\* a default node id that is empty or names a node, is accepted.
C19_CyclesRejected ==
    GraphReturned =>
        /\ GraphAccepted => ~HasCycle(graph.payload.Edges)
        /\ ( /\ HasCycle(graph.payload.Edges)
             /\ UniqueNodeIds(graph.payload)
             /\ ResolvableEndpoints(graph.payload) ) => graph.result.err = "cycle"
        /\ ( /\ ~HasCycle(graph.payload.Edges)
             /\ UniqueNodeIds(graph.payload)
             /\ ResolvableEndpoints(graph.payload)
             /\ graph.payload.DefaultNodeID \in NodeIds(graph.payload) \cup {NoId} ) => GraphAccepted

\* A cycle of three edges or more that leaves the first node alone is
\* rejected as a cycle.
C19_Witness ==
    /\ GraphReturned
    /\ graph.result.err = "cycle"
    /\ \A e \in graph.payload.Edges :
         /\ e[1] # 1 /\ e[2] # 1 /\ e[1] # e[2]
         /\ \A f \in graph.payload.Edges : ~(f[1] = e[2] /\ f[2] = e[1])

\* The nodes without outgoing edges.
Terminals(edges) == { i \in 1 .. Len(edges) : edges[i] = << >> }

\* The longest-path distance of node v from the source nodes.
RECURSIVE LongestDist(_, _)
LongestDist(edges, v) ==
    LET preds == { i \in 1 .. Len(edges) : \E k \in 1 .. Len(edges[i]) : edges[i][k].nIdx = v }
        dists == { LongestDist(edges, i) + 1 : i \in preds }
    IN  IF preds = {} THEN 0 ELSE CHOOSE d \in dists : \A o \in dists : o <= d

\* C20: when no defaultNodeId is supplied, the default node of an accepted
\* graph is a node without outgoing edges whose longest-path distance from
\* the source nodes is the greatest among the nodes without outgoing edges,
\* and the earliest in the node list of the terminal nodes of that distance.
C20_DefaultNodeIsFurthestTerminal ==
    ( /\ GraphAccepted
      /\ graph.payload.DefaultNodeID = NoId
      /\ graph.payload.Nodes # << >> ) =>
        /\ graph.result.defaultNode \in Terminals(graph.result.edges)
        /\ \A t \in Terminals(graph.result.edges) :
             /\ LongestDist(graph.result.edges, t)
                  <= LongestDist(graph.result.edges, graph.result.defaultNode)
             /\ LongestDist(graph.result.edges, t)
                  = LongestDist(graph.result.edges, graph.result.defaultNode)
                  => graph.result.defaultNode <= t

\* C21: a payload in which two nodes share an id is rejected with the
\* error of the unique-id count, whatever its edges and default node id.
C21_DuplicateIdsRejected ==
    (GraphReturned /\ ~UniqueNodeIds(graph.payload)) => graph.result.err = "node ids"

\* Two nodes of one id, an edge to an unknown id, a self loop and an unknown
\* default node id: the payload is rejected for its ids.
C21_Witness ==
    /\ GraphReturned
    /\ graph.payload.Nodes = << 1, 1 >>
    /\ \E e \in graph.payload.Edges : e[1] = 1 /\ e[2] = 1
    /\ \E e \in graph.payload.Edges : e[2] = UnknownId
    /\ graph.payload.DefaultNodeID = UnknownId
    /\ graph.result.err = "node ids"

\* C22: the default node of every accepted graph is one of its nodes.
C22_DefaultNodeExists ==
    GraphAccepted => graph.result.defaultNode \in 1 .. Len(graph.payload.Nodes)

(***************************************************************************)
(* Properties of the round trip                                            *)
(***************************************************************************)

\* The (source id, destination id, input index) triples of a graph's edges.
EdgesOf(g) ==
    UNION { { << g.nodes[i], g.nodes[g.edges[i][k].nIdx], g.edges[i][k].sourceIndex >> :
                k \in 1 .. Len(g.edges[i]) } :
            i \in 1 .. Len(g.edges) }

\* The same nodes, the same edges and the same default node.
Equivalent(g, h) ==
    /\ g.nodes = h.nodes
    /\ EdgesOf(g) = EdgesOf(h)
    /\ g.defaultNode = h.defaultNode

\* The round trip of an accepted graph has ended, in a second graph or in
\* a panic of the encoder.
RoundTripEnded == graph # NoCall /\ graph.pc \in {"decoded", "panic"}

\* C23: for every accepted graph, decoding what the encoder writes of it
\* yields an equivalent graph: the same nodes, the same set of (source,
\* destination, input index) edges and the same default node.
C23_RoundTripEquivalent ==
    RoundTripEnded =>
        /\ graph.pc = "decoded"
        /\ graph.again.err = "none"
        /\ Equivalent(graph.result, graph.again)

\* The graph has an edge from node u to node v.
HasEdge(g, u, v) == \E k \in 1 .. Len(g.edges[u]) : g.edges[u][k].nIdx = v

\* The place of node i in the list L, 0 if it is not in it.
PlaceIn(L, i) == IF \E k \in 1 .. Len(L) : L[k] = i
                   THEN CHOOSE k \in 1 .. Len(L) : L[k] = i
                   ELSE 0

\* C37: when decoding fails with Cycle, the node list reported starts and
\* ends with the same node, and for each consecutive pair u, v of the list
\* the graph has an edge from u to v.
C37_CycleIsDirectedRing ==
    (GraphReturned /\ graph.result.err = "cycle") =>
        LET L == graph.dfs.cycle
            g == BuildGraph(graph.payload)
        IN  /\ Len(L) >= 2
            /\ L[1] = L[Len(L)]
            /\ \A i \in 1 .. Len(L) - 1 : HasEdge(g, L[i], L[i + 1])

\* The payload went through the whole depth-first search without a cycle.
GraphAcyclic == GraphReturned /\ graph.result.err \in {"none", "default node"}

\* C38: for every acyclic graph the post-order recorded by the search is a
\* permutation of the nodes (each node once, as many entries as nodes), and
\* the destination of every edge comes before the source of the edge.
C38_PostOrderIsReverseTopological ==
    GraphAcyclic =>
        LET post == graph.dfs.postTraversal
            g == BuildGraph(graph.payload)
        IN  /\ Len(post) = Len(graph.payload.Nodes)
            /\ \A i \in 1 .. g.n : Cardinality({ k \in 1 .. Len(post) : post[k] = i }) = 1
            /\ \A u, v \in 1 .. g.n :
                 HasEdge(g, u, v) => PlaceIn(post, v) < PlaceIn(post, u)

\* A graph of several edges whose post-order is neither the order of the
\* nodes nor its reverse.
C38_Witness ==
    /\ GraphAcyclic
    /\ Len(graph.payload.Nodes) = MaxNodes
    /\ Cardinality(graph.payload.Edges) >= 3
    /\ graph.dfs.postTraversal # NodesUpTo(MaxNodes)
    /\ graph.dfs.postTraversal[1] # MaxNodes
    /\ \E u, v \in 1 .. MaxNodes :
         /\ HasEdge(BuildGraph(graph.payload), u, v)
         /\ Len(BuildGraph(graph.payload).edges[v]) > 0

(***************************************************************************)
(* Part 7: ImageGeoreferencing.  A float64 is written m * 2^e with m odd,  *)
(* or m = 0 and e = 0.  The operations below give, for the values the      *)
(* model feeds them, the float64 result exactly: mantissas stay far below  *)
(* 2^53, so a product, a quotient by a power of two and a sum of two       *)
(* values whose exponents are close are computed without rounding, and a   *)
(* sum of two values whose exponents are far apart rounds to the larger    *)
(* one.  Sums in between, and quotients by other values, would round to a  *)
(* value the model cannot write; the inputs are chosen so that none is     *)
(* ever computed (the CASE expressions have no arm for them).              *)
(***************************************************************************)
\* Exponents at most this far apart: the sum is computed as an integer.
MaxShift == 20

\* A value of fewer than this many mantissa bits, 54 binary places or more
\* below the unit of the other term, is less than a quarter of the spacing
\* of the float64 values around that term: the sum rounds to that term.
MantissaBits == 11
AbsorbGap == 54 + MantissaBits

\* The state outside the call of Invert.
notGeo == << vars, fbs, del, dl, watch, graph, subset, vrt >>

RECURSIVE Pow2(_)
Pow2(k) == IF k = 0 THEN 1 ELSE 2 * Pow2(k - 1)

Abs(n) == IF n < 0 THEN -n ELSE n

\* The float64 of value m * 2^e.
RECURSIVE Float(_, _)
Float(m, e) ==
    IF m = 0 THEN [m |-> 0, e |-> 0]
    ELSE IF m % 2 = 0 THEN Float(m \div 2, e + 1)
    ELSE [m |-> m, e |-> e]

\* -a
FNeg(a) == [m |-> -a.m, e |-> a.e]

\* a * b
FMul(a, b) == Float(a.m * b.m, a.e + b.e)

\* a + b
FAdd(a, b) ==
    IF a.m = 0 THEN b
    ELSE IF b.m = 0 THEN a
    ELSE LET hi == IF a.e >= b.e THEN a ELSE b
             lo == IF a.e >= b.e THEN b ELSE a
         IN  CASE hi.e - lo.e <= MaxShift ->
                    Float(hi.m * Pow2(hi.e - lo.e) + lo.m, lo.e)
               [] hi.e - lo.e >= AbsorbGap /\ Abs(lo.m) < Pow2(MantissaBits) -> hi

\* a + b loses nothing of its terms.
FAddExact(a, b) == a.m = 0 \/ b.m = 0 \/ Abs(a.e - b.e) <= MaxShift

\* a - b
FSub(a, b) == FAdd(a, FNeg(b))

\* a / b, for b a power of two or its negative.
FDiv(a, b) == CASE Abs(b.m) = 1 -> Float(a.m * b.m, a.e - b.e)

\* int(a): the fraction is dropped.
FTrunc(a) ==
    IF a.e >= 0 THEN a.m * Pow2(a.e)
    ELSE IF -a.e > 30 THEN 0
    ELSE IF a.m < 0 THEN -((-a.m) \div Pow2(-a.e))
    ELSE a.m \div Pow2(-a.e)

\* float64(n)
FromInt(n) == Float(n, 0)

\* Mutant of BelowEpsilon: only a determinant of zero is refused.
BelowEpsilon_OnlyZero(a) == a.m = 0

\* math.Abs(a) < 0.000000000000001, which lies between 9/8 * 2^-50 and
\* 2305/2048 * 2^-50.
BelowEpsilon(a) ==
    CASE a.m = 0 -> TRUE
      [] a.m # 0 /\ a.e > -50 -> FALSE
      [] a.m # 0 /\ a.e <= -50 /\ -50 - a.e <= 10 -> 8 * Abs(a.m) <= 9 * Pow2(-50 - a.e)
      [] a.m # 0 /\ -50 - a.e > 10 /\ Abs(a.m) <= 2304 -> TRUE

\* An ImageGeoreferencing of the six numbers (the spatial reference system
\* code is copied along and plays no part).
Georeferencing(TranslateX, ScaleX, ShearX, TranslateY, ShearY, ScaleY) ==
    [TranslateX |-> TranslateX, ScaleX |-> ScaleX, ShearX |-> ShearX,
     TranslateY |-> TranslateY, ShearY |-> ShearY, ScaleY |-> ScaleY]

Zero == Float(0, 0)

One == Float(1, 0)

\* ImageGeoreferencing.Apply: each sum is taken from the left.
Apply(gt, xPix, yPix) ==
    [x |-> FAdd(FAdd(gt.TranslateX, FMul(gt.ScaleX, xPix)), FMul(gt.ShearX, yPix)),
     y |-> FAdd(FAdd(gt.TranslateY, FMul(gt.ShearY, xPix)), FMul(gt.ScaleY, yPix))]

\* No sum of Apply loses anything of its terms.
ApplyExact(gt, xPix, yPix) ==
    /\ FAddExact(gt.TranslateX, FMul(gt.ScaleX, xPix))
    /\ FAddExact(FAdd(gt.TranslateX, FMul(gt.ScaleX, xPix)), FMul(gt.ShearX, yPix))
    /\ FAddExact(gt.TranslateY, FMul(gt.ShearY, xPix))
    /\ FAddExact(FAdd(gt.TranslateY, FMul(gt.ShearY, xPix)), FMul(gt.ScaleY, yPix))

\* Mutant of easyInvert: the translation is not negated.
easyInvert_NotNegated(gt) ==
    [err |-> "none",
     gt |-> Georeferencing(FDiv(gt.TranslateX, gt.ScaleX), FDiv(One, gt.ScaleX), Zero,
                           FDiv(gt.TranslateY, gt.ScaleY), Zero, FDiv(One, gt.ScaleY))]

\* ImageGeoreferencing.easyInvert
easyInvert(gt) ==
    [err |-> "none",
     gt |-> Georeferencing(FDiv(FNeg(gt.TranslateX), gt.ScaleX), FDiv(One, gt.ScaleX), Zero,
                           FDiv(FNeg(gt.TranslateY), gt.ScaleY), Zero, FDiv(One, gt.ScaleY))]

\* det of hardInvert
Det(gt) == FSub(FMul(gt.ScaleX, gt.ScaleY), FMul(gt.ShearX, gt.ShearY))

\* ImageGeoreferencing.hardInvert
hardInvert(gt) ==
    IF BelowEpsilon(Det(gt))
      THEN [err |-> "non invertable", gt |-> Georeferencing(Zero, Zero, Zero, Zero, Zero, Zero)]
      ELSE LET invDet == FDiv(One, Det(gt))
           IN  [err |-> "none",
                gt |-> Georeferencing(
                         FMul(FSub(FMul(gt.ShearX, gt.TranslateY), FMul(gt.TranslateX, gt.ScaleY)),
                              invDet),
                         FMul(gt.ScaleY, invDet),
                         FMul(FNeg(gt.ShearX), invDet),
                         FMul(FAdd(FMul(FNeg(gt.ScaleX), gt.TranslateY),
                                   FMul(gt.TranslateX, gt.ShearY)),
                              invDet),
                         FMul(FNeg(gt.ShearY), invDet),
                         FMul(gt.ScaleX, invDet))]

\* The transform takes the easy path of Invert.
EasyPath(gt) ==
    gt.ShearX.m = 0 /\ gt.ShearY.m = 0 /\ gt.ScaleX.m # 0 /\ gt.ScaleY.m # 0

\* ImageGeoreferencing.Invert
Invert(gt) == IF EasyPath(gt) THEN easyInvert(gt) ELSE hardInvert(gt)

\* The scales of the transforms without shear, 2^-30 among them, their
\* translations, 2^70 among them, and the coordinates of the points.
EasyScales == { Float(1, 0), Float(-1, 0), Float(1, 1), Float(1, -1), Float(1, -30) }

Translations == { Float(0, 0), Float(3, 0), Float(-5, 0), Float(1, 70) }

Coords == { Float(0, 0), Float(1, 0), Float(-3, 0) }

\* The entries of the other transforms: the numbers here, or 2^-30 times
\* them; the determinant is zero or a power of two or its negative, so
\* that 1.0 / det is computed without rounding.
HardEntries == { -1, 0, 1, 2 }

HardTranslations == { Float(0, 0), Float(3, 0), Float(1, 70) }

HardDeterminants == { 0, 1, -1, 2, -2, 4, -4 }

GeoCall(gt, px, py) ==
    geo = [call |-> "Invert", gt |-> gt, p |-> [x |-> px, y |-> py], pc |-> "call",
           inv |-> [err |-> "none", gt |-> Georeferencing(Zero, Zero, Zero, Zero, Zero, Zero)],
           q |-> [x |-> Zero, y |-> Zero],
           r |-> [x |-> Zero, y |-> Zero]]

GeoInit ==
    /\ RealizeIdle
    /\ fbs = NoCall
    /\ del = NoCall
    /\ dl = NoCall
    /\ watch = NoCall
    /\ graph = NoCall
    /\ subset = NoCall
    /\ vrt = NoCall
    /\ \E px \in Coords, py \in Coords :
         \/ \E sx \in EasyScales, sy \in EasyScales, tx \in Translations, ty \in Translations :
              GeoCall(Georeferencing(tx, sx, Zero, ty, Zero, sy), px, py)
         \/ \E sx \in HardEntries, shx \in HardEntries, shy \in HardEntries, sy \in HardEntries,
               tx \in HardTranslations, ty \in HardTranslations, e \in {0, -30} :
              /\ sx * sy - shx * shy \in HardDeterminants
              /\ GeoCall(Georeferencing(tx, Float(sx, e), Float(shx, e),
                                        ty, Float(shy, e), Float(sy, e)), px, py)

\* gt.Invert()
GeoInvert ==
    /\ geo # NoCall
    /\ geo.pc = "call"
    /\ geo' = [geo EXCEPT !.inv = Invert(geo.gt),
                          !.pc = IF Invert(geo.gt).err = "none" THEN "inverted" ELSE "failed"]
    /\ UNCHANGED notGeo

\* The inverse is applied to the point p.
GeoApplyInverse ==
    /\ geo # NoCall
    /\ geo.pc = "inverted"
    /\ geo' = [geo EXCEPT !.q = Apply(geo.inv.gt, geo.p.x, geo.p.y), !.pc = "mapped"]
    /\ UNCHANGED notGeo

\* The transform is applied to the result.
GeoApply ==
    /\ geo # NoCall
    /\ geo.pc = "mapped"
    /\ geo' = [geo EXCEPT !.r = Apply(geo.gt, geo.q.x, geo.q.y), !.pc = "back"]
    /\ UNCHANGED notGeo

GeoNext ==
    \/ GeoInvert
    \/ GeoApplyInverse
    \/ GeoApply

GeoSpec == GeoInit /\ [][GeoNext]_geo

(***************************************************************************)
(* Properties of ImageGeoreferencing                                       *)
(***************************************************************************)

\* |a| <= |b|, for mantissas of fewer than MaxShift bits.
FLeAbs(a, b) ==
    IF a.m = 0 THEN TRUE
    ELSE IF b.m = 0 THEN FALSE
    ELSE IF a.e - b.e > MaxShift THEN FALSE
    ELSE IF b.e - a.e > MaxShift THEN TRUE
    ELSE IF a.e >= b.e THEN Abs(a.m) * Pow2(a.e - b.e) <= Abs(b.m)
    ELSE Abs(a.m) <= Abs(b.m) * Pow2(b.e - a.e)

\* The larger of |a| and |b|.
FMaxAbs(a, b) == IF FLeAbs(a, b) THEN b ELSE a

\* The point r is the point p within a relative error of 2^-26, the
\* distance and the size of p being measured by the larger coordinate.
\* 2^-26 is a little more than 1e-8: a point within 1e-8 of p, whether the
\* error is measured coordinate by coordinate, by the larger coordinate or
\* by the Euclidean length, is within 2^-26 in this measure.
WithinTolerance(r, p) ==
    FLeAbs(FMul(FMaxAbs(FSub(r.x, p.x), FSub(r.y, p.y)), Float(1, 26)), FMaxAbs(p.x, p.y))

\* The determinant of the transform is below 1e-15 in absolute value, or
\* is not: it is zero or below 2^-50, or it is 2^-49 or more.
DetBelowThreshold(gt) ==
    \/ Det(gt).m = 0
    \/ Abs(Det(gt).m) < 8 /\ Det(gt).e <= -53

DetAboveThreshold(gt) == Det(gt).m # 0 /\ Det(gt).e >= -49

\* No sum of hardInvert loses anything of its terms.
InvertExact(gt) ==
    \/ EasyPath(gt)
    \/ /\ FAddExact(FMul(gt.ShearX, gt.TranslateY), FMul(gt.TranslateX, gt.ScaleY))
       /\ FAddExact(FMul(gt.ScaleX, gt.TranslateY), FMul(gt.TranslateX, gt.ShearY))

C28_Original ==
    (geo # NoCall /\ geo.pc # "call" /\ DetBelowThreshold(geo.gt))
        => geo.inv.err = "non invertable"

\* C28: Invert fails exactly for the transforms of the hard path (a shear
\* that is not zero, or a scale that is zero) whose determinant is below
\* 1e-15 in absolute value; on the easy path it succeeds however small the
\* determinant is.
C28_HardPathThreshold ==
    (geo # NoCall /\ geo.pc # "call") =>
        /\ (~EasyPath(geo.gt) /\ DetBelowThreshold(geo.gt)) => geo.inv.err = "non invertable"
        /\ (~EasyPath(geo.gt) /\ DetAboveThreshold(geo.gt)) => geo.inv.err = "none"
        /\ EasyPath(geo.gt) => geo.inv.err = "none"

\* A transform with shear and a determinant that is small but not zero is
\* refused.
C28_Witness ==
    /\ geo # NoCall
    /\ geo.pc = "failed"
    /\ geo.gt.ShearX.m # 0
    /\ Det(geo.gt).m # 0
    /\ geo.inv.err = "non invertable"


(***************************************************************************)
(* Part 8: Metadata.Subset.  A Go int is modelled with IntBits bits, two's *)
(* complement, so that xOff + xSize wraps as it does in the code.          *)
(***************************************************************************)
\* The width of an int.
IntBits == 6

MaxInt == Pow2(IntBits - 1) - 1

MinInt == -Pow2(IntBits - 1)

\* The int a computation of value n leaves.
Wrap(n) == ((n - MinInt) % Pow2(IntBits)) + MinInt

\* The state outside the call of Subset.
notSubset == << vars, fbs, del, dl, watch, graph, geo, vrt >>

\* A TileWindow (NumXTiles and NumYTiles as the code leaves them).
TileWindow(MinTileX, MinTileY, MaxTileX, MaxTileY) ==
    [MinTileX |-> MinTileX, MinTileY |-> MinTileY,
     MaxTileX |-> MaxTileX, MaxTileY |-> MaxTileY,
     NumXTiles |-> Wrap(Wrap(MaxTileX - MinTileX) + 1),
     NumYTiles |-> Wrap(Wrap(MaxTileY - MinTileY) + 1)]

\* The nil *TileWindow returned with an error.
NoWindow == [MinTileX |-> 0, MinTileY |-> 0, MaxTileX |-> 0, MaxTileY |-> 0,
             NumXTiles |-> 0, NumYTiles |-> 0]

\* Metadata.setTileGeoreferencing: the tile transform of metadata m.
setTileGeoreferencing(m) ==
    LET xsize == FromInt(m.TileXSize)
        ysize == FromInt(m.TileYSize)
    IN  [m.ImageGeoreferencing EXCEPT !.ScaleX = FMul(@, xsize),
                                      !.ShearX = FMul(@, ysize),
                                      !.ScaleY = FMul(@, ysize),
                                      !.ShearY = FMul(@, xsize)]

\* Metadata.Subset
Subset(m, xOff, yOff, xSize, ySize) ==
    LET tm == m.TileWindow
        invTileGT == Invert(setTileGeoreferencing(m))
        GeoTL == Apply(m.ImageGeoreferencing, FromInt(xOff), FromInt(yOff))
        GeoLR == Apply(m.ImageGeoreferencing, FromInt(Wrap(Wrap(xOff + xSize) - 1)),
                       FromInt(Wrap(Wrap(yOff + ySize) - 1)))
        TileTL == Apply(invTileGT.gt, GeoTL.x, GeoTL.y)
        TileLR == Apply(invTileGT.gt, GeoLR.x, GeoLR.y)
        \* Truncate to fit into the window.
        MinTileX == IF FTrunc(TileTL.x) < tm.MinTileX THEN tm.MinTileX ELSE FTrunc(TileTL.x)
        MaxTileX == IF FTrunc(TileLR.x) > tm.MaxTileX THEN tm.MaxTileX ELSE FTrunc(TileLR.x)
        MinTileY == IF FTrunc(TileTL.y) < tm.MinTileY THEN tm.MinTileY ELSE FTrunc(TileTL.y)
        MaxTileY == IF FTrunc(TileLR.y) > tm.MaxTileY THEN tm.MaxTileY ELSE FTrunc(TileLR.y)
    IN  IF xOff = 0 /\ yOff = 0 /\ xSize = 0 /\ ySize = 0
          THEN [err |-> "none", tw |-> tm]
        ELSE IF xSize < 1 \/ ySize < 1
          THEN [err |-> "must be positive", tw |-> NoWindow]
        ELSE IF \/ Wrap(xOff + xSize) <= 0
                \/ Wrap(yOff + ySize) <= 0
                \/ xOff >= m.ImageWidth
                \/ yOff >= m.ImageHeight
          THEN [err |-> "not contained", tw |-> NoWindow]
        ELSE IF invTileGT.err # "none"
          THEN [err |-> invTileGT.err, tw |-> NoWindow]
        ELSE [err |-> "none", tw |-> TileWindow(MinTileX, MinTileY, MaxTileX, MaxTileY)]

\* The image along one axis: its size in pixels, the size of a tile and its
\* tile extents.  The second has tiles left of pixel 0; the third is an
\* image whose tile window starts at tile 1.
XAxes == { [size |-> 4, tile |-> 2, min |-> 0, max |-> 1],
           [size |-> 4, tile |-> 2, min |-> -1, max |-> 1],
           [size |-> 4, tile |-> 2, min |-> 1, max |-> 2] }

YAxes == { [size |-> 4, tile |-> 2, min |-> 0, max |-> 1],
           [size |-> 8, tile |-> 4, min |-> -1, max |-> 1] }

\* The transforms of the metadata: north up, half-size pixels with x
\* mirrored, a quarter turn (the hard path of Invert), and all zero scales
\* and shears (not invertible).
Transforms ==
    { Georeferencing(Zero, One, Zero, Zero, Zero, FNeg(One)),
      Georeferencing(Float(3, 0), Float(-1, -1), Zero, Float(-5, 0), Zero, Float(1, -1)),
      Georeferencing(Float(3, 0), Zero, One, Zero, FNeg(One), Zero),
      Georeferencing(Float(3, 0), Zero, Zero, Zero, Zero, Zero) }

\* The Metadata of the two axes and a transform.
Metadata(ax, ay, gt) ==
    [ImageWidth |-> ax.size, ImageHeight |-> ay.size,
     TileXSize |-> ax.tile, TileYSize |-> ay.tile,
     TileWindow |-> TileWindow(ax.min, ay.min, ax.max, ay.max),
     ImageGeoreferencing |-> gt]

\* The arguments of Subset; MaxInt is the largest size there is.
XOffs == (-3 .. 5) \cup {MaxInt}

XSizes == (0 .. 4) \cup {MaxInt}

YOffs == {-2, -1, 0, 3, 8}

YSizes == {0, 1, 2, 5}

SubsetCall(m, xOff, yOff, xSize, ySize) ==
    subset = [call |-> "Subset", m |-> m, xOff |-> xOff, yOff |-> yOff,
              xSize |-> xSize, ySize |-> ySize, pc |-> "call",
              result |-> [err |-> "none", tw |-> NoWindow]]

SubsetInit ==
    /\ RealizeIdle
    /\ fbs = NoCall
    /\ del = NoCall
    /\ dl = NoCall
    /\ watch = NoCall
    /\ graph = NoCall
    /\ geo = NoCall
    /\ vrt = NoCall
    /\ \E ax \in XAxes, ay \in YAxes, gt \in Transforms,
          xOff \in XOffs, yOff \in YOffs, xSize \in XSizes, ySize \in YSizes :
         SubsetCall(Metadata(ax, ay, gt), xOff, yOff, xSize, ySize)

\* m.Subset(xOff, yOff, xSize, ySize)
SubsetReturn ==
    /\ subset # NoCall
    /\ subset.pc = "call"
    /\ subset' = [subset EXCEPT
                    !.result = Subset(subset.m, subset.xOff, subset.yOff,
                                      subset.xSize, subset.ySize),
                    !.pc = "done"]
    /\ UNCHANGED notSubset

SubsetNext == SubsetReturn

SubsetSpec == SubsetInit /\ [][SubsetNext]_subset

(***************************************************************************)
(* Properties of Metadata.Subset                                           *)
(***************************************************************************)
SubsetDone == subset # NoCall /\ subset.pc = "done"

\* The requested rectangle has a pixel in [0, ImageWidth) x [0, ImageHeight).
IntersectsImage ==
    /\ subset.xOff + subset.xSize > 0
    /\ subset.yOff + subset.ySize > 0
    /\ subset.xOff < subset.m.ImageWidth
    /\ subset.yOff < subset.m.ImageHeight

\* The tiles of a tile window.
TilesOf(tw) == (tw.MinTileX .. tw.MaxTileX) \X (tw.MinTileY .. tw.MaxTileY)

\* Tile t of size ts along an axis holds the pixels t * ts .. (t + 1) * ts - 1;
\* the request holds the pixels off .. off + size - 1.
TouchesTile(t, ts, off, size) == t * ts < off + size /\ off < (t + 1) * ts

\* The tiles of the metadata's tile window that hold a pixel of the request.
TilesOfRequest ==
    { t \in TilesOf(subset.m.TileWindow) :
        /\ TouchesTile(t[1], subset.m.TileXSize, subset.xOff, subset.xSize)
        /\ TouchesTile(t[2], subset.m.TileYSize, subset.yOff, subset.ySize) }

NoShear(gt) == gt.ShearX.m = 0 /\ gt.ShearY.m = 0


\* C24: for an image without shear and any tile extents, a request of
\* positive size that intersects the image yields exactly the tiles of the
\* image's tile window that hold at least one pixel of the request.
C24_ExactlyTheTilesOfTheRequest ==
    (/\ SubsetDone
     /\ subset.xSize >= 1
     /\ subset.ySize >= 1
     /\ NoShear(subset.m.ImageGeoreferencing)
     /\ EasyPath(subset.m.ImageGeoreferencing)
     /\ IntersectsImage)
    => /\ subset.result.err = "none"
       /\ TilesOf(subset.result.tw) = TilesOfRequest

\* C25: every TileWindow returned by Subset has MinTileX <= MaxTileX and
\* MinTileY <= MaxTileY and lies within the metadata's own tile extents.
C25_WindowWithinExtents ==
    (SubsetDone /\ subset.result.err = "none")
    => /\ subset.result.tw.MinTileX <= subset.result.tw.MaxTileX
       /\ subset.result.tw.MinTileY <= subset.result.tw.MaxTileY
       /\ subset.m.TileWindow.MinTileX <= subset.result.tw.MinTileX
       /\ subset.result.tw.MaxTileX <= subset.m.TileWindow.MaxTileX
       /\ subset.m.TileWindow.MinTileY <= subset.result.tw.MinTileY
       /\ subset.result.tw.MaxTileY <= subset.m.TileWindow.MaxTileY

\* C26: for positive sizes, Subset fails with the out-of-image error exactly
\* when the request has no pixel in [0, ImageWidth) x [0, ImageHeight).
C26_OutOfImageExactly ==
    (SubsetDone /\ subset.xSize >= 1 /\ subset.ySize >= 1)
    => (subset.result.err = "not contained" <=> ~IntersectsImage)

(***************************************************************************)
(* processSubWindows: the --projwin and --srcwin flags of the commands     *)
(* become the tile window of Metadata.Subset.                              *)
(***************************************************************************)
\* math.Floor(a) and math.Ceil(a)
FFloor(a) == FromInt(IF a.e >= 0 THEN a.m * Pow2(a.e) ELSE a.m \div Pow2(-a.e))

FCeil(a) == FNeg(FFloor(FNeg(a)))

\* sourceWindow{} and projectionWindow{}: the flag was not given.
SourceWindow(xOff, yOff, xSize, ySize) ==
    [xOff |-> xOff, yOff |-> yOff, xSize |-> xSize, ySize |-> ySize]

ProjectionWindow(ulx, uly, lrx, lry) == [ulx |-> ulx, uly |-> uly, lrx |-> lrx, lry |-> lry]

NoSourceWindow == SourceWindow(0, 0, 0, 0)

NoProjectionWindow == ProjectionWindow(Zero, Zero, Zero, Zero)

\* The source window that processSubWindows makes of a projected window
\* with the inverse igt of the image transform.
ConvertProjWin(igt, projWin) ==
    LET off == Apply(igt, projWin.ulx, projWin.uly)
        offLR == Apply(igt, projWin.lrx, projWin.lry)
    IN  SourceWindow(FTrunc(FFloor(off.x)), FTrunc(FFloor(off.y)),
                     FTrunc(FCeil(FSub(offLR.x, off.x))),
                     FTrunc(FCeil(FSub(offLR.y, off.y))))

\* processSubWindows: the source window it leaves in *srcWin, and what it
\* returns.
processSubWindows(srcWin, projWin, md) ==
    IF projWin # NoProjectionWindow /\ srcWin # NoSourceWindow
      THEN [srcWin |-> srcWin, err |-> "both set", tw |-> NoWindow]
    ELSE IF projWin # NoProjectionWindow /\ Invert(md.ImageGeoreferencing).err # "none"
      THEN [srcWin |-> srcWin, err |-> Invert(md.ImageGeoreferencing).err, tw |-> NoWindow]
    ELSE LET win == IF projWin # NoProjectionWindow
                      THEN ConvertProjWin(Invert(md.ImageGeoreferencing).gt, projWin)
                      ELSE srcWin
             r == Subset(md, win.xOff, win.yOff, win.xSize, win.ySize)
         IN  [srcWin |-> win, err |-> r.err, tw |-> r.tw]

\* The projected windows given: corners on pixel corners and half a pixel
\* off them, for the transforms of the metadata.
ProjXs == { Float(0, 0), Float(1, -1), Float(1, 0), Float(3, -1), Float(1, 1), Float(3, 0) }

ProjYs == { Float(0, 0), Float(-1, -1), Float(-1, 0), Float(-3, -1), Float(-1, 1) }

ProjWins ==
    {NoProjectionWindow}
      \cup { ProjectionWindow(ulx, uly, lrx, lry) : ulx \in ProjXs, lrx \in ProjXs,
                                                     uly \in ProjYs, lry \in ProjYs }

SrcWins == { NoSourceWindow, SourceWindow(1, 1, 2, 2) }

ProjWinInit ==
    /\ RealizeIdle
    /\ fbs = NoCall
    /\ del = NoCall
    /\ dl = NoCall
    /\ watch = NoCall
    /\ graph = NoCall
    /\ geo = NoCall
    /\ vrt = NoCall
    /\ \E ax \in XAxes, ay \in YAxes, gt \in Transforms, srcWin \in SrcWins, projWin \in ProjWins :
         subset = [call |-> "processSubWindows", md |-> Metadata(ax, ay, gt),
                   srcWin |-> srcWin, projWin |-> projWin, pc |-> "call",
                   result |-> [srcWin |-> srcWin, err |-> "none", tw |-> NoWindow]]

\* processSubWindows(&srcWin, &projWin, md)
ProjWinReturn ==
    /\ subset # NoCall
    /\ subset.pc = "call"
    /\ subset' = [subset EXCEPT
                    !.result = processSubWindows(subset.srcWin, subset.projWin, subset.md),
                    !.pc = "done"]
    /\ UNCHANGED notSubset

ProjWinNext == ProjWinReturn

ProjWinSpec == ProjWinInit /\ [][ProjWinNext]_subset

\* A projected window has been converted: the flag was given alone and the
\* image transform has an inverse.
ProjWinConverted ==
    /\ subset # NoCall
    /\ subset.pc = "done"
    /\ subset.projWin # NoProjectionWindow
    /\ subset.srcWin = NoSourceWindow
    /\ Invert(subset.md.ImageGeoreferencing).err = "none"

\* The corners of the projected window in pixel coordinates.
PixelUL ==
    Apply(Invert(subset.md.ImageGeoreferencing).gt, subset.projWin.ulx, subset.projWin.uly)

PixelLR ==
    Apply(Invert(subset.md.ImageGeoreferencing).gt, subset.projWin.lrx, subset.projWin.lry)

\* a < b
FLess(a, b) == FSub(b, a).m > 0

\* Pixel i of an axis, which covers [i, i + 1), is touched by the window
\* from lo to hi on that axis.
Touched(i, lo, hi) == FTrunc(FFloor(lo)) <= i /\ i < FTrunc(FCeil(hi))

\* C40: a projected window whose lower-right corner is right of and below
\* its upper-left corner in pixel coordinates is converted to the pixel
\* window whose top-left corner is the floor of the upper-left point and
\* whose bottom-right corner is the ceiling of the lower-right point, so
\* that it covers every pixel that the projected window touches.
C40_ProjWinCoversTouchedPixels ==
    (ProjWinConverted /\ FLess(PixelUL.x, PixelLR.x) /\ FLess(PixelUL.y, PixelLR.y)) =>
        LET win == subset.result.srcWin IN
        /\ win.xOff = FTrunc(FFloor(PixelUL.x))
        /\ win.yOff = FTrunc(FFloor(PixelUL.y))
        /\ win.xOff + win.xSize = FTrunc(FCeil(PixelLR.x))
        /\ win.yOff + win.ySize = FTrunc(FCeil(PixelLR.y))
        /\ \A i \in -8 .. 8 :
             /\ Touched(i, PixelUL.x, PixelLR.x) => (win.xOff <= i /\ i < win.xOff + win.xSize)
             /\ Touched(i, PixelUL.y, PixelLR.y) => (win.yOff <= i /\ i < win.yOff + win.ySize)


(***************************************************************************)
(* Part 9: NewVRT                                                          *)
(***************************************************************************)
\* The longest list of tiles handed to NewVRT.
MaxVrtTiles == 3

\* The state outside the call of NewVRT.
notVrt == << vars, fbs, del, dl, watch, graph, geo, subset >>

\* tileExtents: k = 0 is the step before the loop, ext the zero values of
\* the results; then the loop over the tiles from the k-th on.
RECURSIVE tileExtents(_, _, _)
tileExtents(tiles, k, ext) ==
    IF k > Len(tiles) THEN ext
    ELSE IF k = 0
      THEN tileExtents(tiles, 1,
             IF Len(tiles) > 0
               THEN [minX |-> tiles[1].XTile, minY |-> tiles[1].YTile,
                     maxX |-> tiles[1].XTile, maxY |-> tiles[1].YTile]
               ELSE ext)
    ELSE LET tile == tiles[k]
         IN  tileExtents(tiles, k + 1,
               [minX |-> IF tile.XTile < ext.minX THEN tile.XTile ELSE ext.minX,
                minY |-> IF tile.YTile < ext.minY THEN tile.YTile ELSE ext.minY,
                maxX |-> IF tile.XTile > ext.maxX THEN tile.XTile ELSE ext.maxX,
                maxY |-> IF tile.YTile > ext.maxY THEN tile.YTile ELSE ext.maxY])

\* RDAToGDALType: "" stands for the error return.
RDAToGDALType(rda) ==
    CASE rda = "byte" -> "Byte"
      [] rda = "short" -> "Int16"
      [] rda = "unsigned_short" -> "UInt16"
      [] rda = "integer" -> "Int32"
      [] rda = "unsigned_integer" -> "UInt32"
      [] rda = "float" -> "Float32"
      [] rda = "double" -> "Float64"
      [] OTHER -> ""

Rect(XOff, YOff, XSize, YSize) ==
    [XOff |-> XOff, YOff |-> YOff, XSize |-> XSize, YSize |-> YSize]

\* Mutant of SimpleSource: the destination is not taken relative to the
\* least tile.
SimpleSource_FromZero(m, tile, b, ext) ==
    [SourceFilename |-> [Filename |-> tile.FilePath, Shared |-> FALSE, RelativeToVRT |-> TRUE],
     SourceBand |-> b,
     SourceProperties |-> [BlockXSize |-> m.TileXSize, BlockYSize |-> m.TileYSize,
                           DataType |-> RDAToGDALType(m.DataType),
                           RasterXSize |-> m.TileXSize, RasterYSize |-> m.TileYSize],
     SrcRect |-> Rect(0, 0, m.TileXSize, m.TileYSize),
     DstRect |-> Rect(Wrap(tile.XTile * m.TileXSize), Wrap(tile.YTile * m.TileYSize),
                      m.TileXSize, m.TileYSize)]

\* The SimpleSource of one tile in band b.
SimpleSource(m, tile, b, ext) ==
    [SourceFilename |-> [Filename |-> tile.FilePath, Shared |-> FALSE, RelativeToVRT |-> TRUE],
     SourceBand |-> b,
     SourceProperties |-> [BlockXSize |-> m.TileXSize, BlockYSize |-> m.TileYSize,
                           DataType |-> RDAToGDALType(m.DataType),
                           RasterXSize |-> m.TileXSize, RasterYSize |-> m.TileYSize],
     SrcRect |-> Rect(0, 0, m.TileXSize, m.TileYSize),
     DstRect |-> Rect(Wrap(Wrap(tile.XTile - ext.minX) * m.TileXSize),
                      Wrap(Wrap(tile.YTile - ext.minY) * m.TileYSize),
                      m.TileXSize, m.TileYSize)]

\* The inner loop of NewVRT: the sources of band b, from the k-th tile on.
RECURSIVE BandSources(_, _, _, _, _, _)
BandSources(m, tiles, b, ext, k, sources) ==
    IF k > Len(tiles) THEN sources
    ELSE BandSources(m, tiles, b, ext, k + 1,
                     Append(sources, SimpleSource(m, tiles[k], b, ext)))

\* The outer loop of NewVRT: the bands from the b-th on (b counts from 0).
RECURSIVE VrtBands(_, _, _, _, _)
VrtBands(m, tiles, ext, b, bands) ==
    IF b >= m.NumBands THEN bands
    ELSE VrtBands(m, tiles, ext, b + 1,
                  Append(bands, [DataType |-> RDAToGDALType(m.DataType), Band |-> b + 1,
                                 SimpleSource |-> BandSources(m, tiles, b + 1, ext, 1, << >>)]))

\* The nil *VRTDataset returned with an error.
NoVRT == [RasterXSize |-> 0, RasterYSize |-> 0, SRS |-> "", GeoTransform |-> << >>,
          Bands |-> << >>, Metadata |-> "nil"]

\* NewVRT; md is "nil", or a Metadatar whose ToVRTMetadata returns metadata
\* ("ok") or an error ("err").
NewVRT(m, tiles, md) ==
    LET ext == tileExtents(tiles, 0, [minX |-> 0, minY |-> 0, maxX |-> 0, maxY |-> 0])
        numXTiles == Wrap(Wrap(ext.maxX - ext.minX) + 1)
        numYTiles == Wrap(Wrap(ext.maxY - ext.minY) + 1)
        hasSRS == m.ImageGeoreferencing.SpatialReferenceSystemCode # ""
        t == Apply(setTileGeoreferencing(m), FromInt(ext.minX), FromInt(ext.minY))
    IN  IF md = "err" THEN [err |-> "metadata", vrt |-> NoVRT]
        ELSE IF RDAToGDALType(m.DataType) = "" THEN [err |-> "no mapping", vrt |-> NoVRT]
        ELSE [err |-> "none",
              vrt |-> [RasterXSize |-> IF hasSRS THEN Wrap(m.TileXSize * numXTiles)
                                       ELSE m.ImageWidth,
                       RasterYSize |-> IF hasSRS THEN Wrap(m.TileYSize * numYTiles)
                                       ELSE m.ImageHeight,
                       SRS |-> m.ImageGeoreferencing.SpatialReferenceSystemCode,
                       GeoTransform |-> IF hasSRS
                                          THEN << t.x, m.ImageGeoreferencing.ScaleX,
                                                  m.ImageGeoreferencing.ShearX, t.y,
                                                  m.ImageGeoreferencing.ShearY,
                                                  m.ImageGeoreferencing.ScaleY >>
                                          ELSE << >>,
                       Bands |-> VrtBands(m, tiles, ext, 0, << >>),
                       Metadata |-> md]]

\* The tile coordinates of the lists.
VrtXTiles == -1 .. 1

VrtYTiles == 2 .. 3

\* The tile at (x, y); its file is named after its coordinates.
VrtTile(x, y) == [FilePath |-> FilePath(x, y), XTile |-> x, YTile |-> y]

\* The lists of n tiles, in every order and with repetitions.
RECURSIVE VrtTileLists(_)
VrtTileLists(n) ==
    IF n = 0 THEN { << >> }
    ELSE { Append(l, VrtTile(x, y)) : l \in VrtTileLists(n - 1), x \in VrtXTiles, y \in VrtYTiles }

\* The metadata NewVRT reads.
VrtMetadata(TileXSize, TileYSize, NumBands, DataType, srs) ==
    [ImageWidth |-> 5, ImageHeight |-> 3, TileXSize |-> TileXSize, TileYSize |-> TileYSize,
     NumBands |-> NumBands, DataType |-> DataType,
     ImageGeoreferencing |->
       [SpatialReferenceSystemCode |-> srs,
        TranslateX |-> Float(3, 0), ScaleX |-> Float(1, -1), ShearX |-> Zero,
        TranslateY |-> Float(-5, 0), ShearY |-> Zero, ScaleY |-> Float(-1, -1)]]

VrtCall(m, tiles, md) ==
    vrt = [call |-> "NewVRT", m |-> m, tiles |-> tiles, md |-> md, pc |-> "call",
           result |-> [err |-> "none", vrt |-> NoVRT]]

VrtInit ==
    /\ RealizeIdle
    /\ fbs = NoCall
    /\ del = NoCall
    /\ dl = NoCall
    /\ watch = NoCall
    /\ graph = NoCall
    /\ geo = NoCall
    /\ subset = NoCall
    /\ \E n \in 0 .. MaxVrtTiles :
         \E tiles \in VrtTileLists(n), ts \in {<< 1, 2 >>, << 2, 1 >>}, NumBands \in 1 .. 2,
            DataType \in {"byte", "unsigned_short", "complex"}, srs \in {"", "EPSG:4326"},
            md \in {"nil", "ok", "err"} :
           VrtCall(VrtMetadata(ts[1], ts[2], NumBands, DataType, srs), tiles, md)

\* NewVRT(m, tiles, md)
VrtReturn ==
    /\ vrt # NoCall
    /\ vrt.pc = "call"
    /\ vrt' = [vrt EXCEPT !.result = NewVRT(vrt.m, vrt.tiles, vrt.md), !.pc = "done"]
    /\ UNCHANGED notVrt

VrtNext == VrtReturn

VrtSpec == VrtInit /\ [][VrtNext]_vrt

(***************************************************************************)
(* Properties of NewVRT                                                    *)
(***************************************************************************)
VrtBuilt == vrt # NoCall /\ vrt.pc = "done" /\ vrt.result.err = "none"

\* The least XTile and the least YTile of the input tiles.
LeastXTile ==
    CHOOSE x \in { vrt.tiles[i].XTile : i \in 1 .. Len(vrt.tiles) } :
      \A i \in 1 .. Len(vrt.tiles) : x <= vrt.tiles[i].XTile

LeastYTile ==
    CHOOSE y \in { vrt.tiles[i].YTile : i \in 1 .. Len(vrt.tiles) } :
      \A i \in 1 .. Len(vrt.tiles) : y <= vrt.tiles[i].YTile

\* The number of different XTile values and YTile values spanned.
SpanX == { vrt.tiles[i].XTile - LeastXTile : i \in 1 .. Len(vrt.tiles) }

SpanY == { vrt.tiles[i].YTile - LeastYTile : i \in 1 .. Len(vrt.tiles) }

\* Two rectangles have a pixel in common.
Overlap(r, s) ==
    /\ r.XOff < s.XOff + s.XSize
    /\ s.XOff < r.XOff + r.XSize
    /\ r.YOff < s.YOff + s.YSize
    /\ s.YOff < r.YOff + r.YSize

\* Rectangle r lies inside the raster of the VRT.
InsideRaster(r, v) ==
    /\ 0 <= r.XOff
    /\ 0 <= r.YOff
    /\ r.XOff + r.XSize <= v.RasterXSize
    /\ r.YOff + r.YSize <= v.RasterYSize

\* C29: in every band of the VRT there is exactly one SimpleSource per
\* input tile, with destination rectangle ((XTile - minXTile) * TileXSize,
\* (YTile - minYTile) * TileYSize, TileXSize, TileYSize), the minima taken
\* over the input tiles whatever their order; rectangles of distinct tiles
\* do not overlap and, with a spatial reference, lie inside the raster of
\* size (TileXSize * numXTiles, TileYSize * numYTiles).
C29_OneSourcePerTile ==
    VrtBuilt =>
      LET v == vrt.result.vrt
          m == vrt.m
      IN  /\ Len(v.Bands) = m.NumBands
          /\ \A b \in 1 .. Len(v.Bands) :
               LET src == v.Bands[b].SimpleSource
               IN  /\ Len(src) = Len(vrt.tiles)
                   /\ \A i \in 1 .. Len(src) :
                        /\ src[i].SourceFilename.Filename = vrt.tiles[i].FilePath
                        /\ src[i].DstRect =
                             Rect((vrt.tiles[i].XTile - LeastXTile) * m.TileXSize,
                                  (vrt.tiles[i].YTile - LeastYTile) * m.TileYSize,
                                  m.TileXSize, m.TileYSize)
                        /\ v.SRS # "" => InsideRaster(src[i].DstRect, v)
                   /\ \A i, j \in 1 .. Len(src) :
                        (vrt.tiles[i] # vrt.tiles[j]) => ~Overlap(src[i].DstRect, src[j].DstRect)
          /\ (v.SRS # "" /\ Len(vrt.tiles) > 0) =>
               /\ \A d \in SpanX : (d + 1) * m.TileXSize <= v.RasterXSize
               /\ \E d \in SpanX : (d + 1) * m.TileXSize = v.RasterXSize
               /\ \A d \in SpanY : (d + 1) * m.TileYSize <= v.RasterYSize
               /\ \E d \in SpanY : (d + 1) * m.TileYSize = v.RasterYSize

\* Three tiles given out of order, the one with the least XTile last.
C29_Witness ==
    /\ VrtBuilt
    /\ Len(vrt.tiles) = 3
    /\ vrt.tiles[1].XTile = 1
    /\ vrt.tiles[1].YTile = 3
    /\ vrt.tiles[2].XTile = 0
    /\ vrt.tiles[3].XTile = -1
    /\ vrt.tiles[3].YTile = 2
    /\ vrt.m.NumBands = 2
    /\ vrt.result.vrt.SRS # ""
    /\ vrt.result.vrt.Bands[2].SimpleSource[1].DstRect.XOff = 2 * vrt.m.TileXSize
    /\ vrt.result.vrt.Bands[2].SimpleSource[3].DstRect.XOff = 0

====
